---- MODULE Spec2Model ----
(***************************************************************************)
(* OpenTV EPG grabber (src/src/epggrab/opentv.c): carousel completion      *)
(* tracker, BAT decoder, event section decoder, partial-event store and    *)
(* EPG emitter.  Sections are byte sequences; the parsers read them with   *)
(* the offsets, masks and shifts of the C code.                            *)
(***************************************************************************)
EXTENDS Integers, Sequences, FiniteSets, TLC

(***************************************************************************)
(* C helpers                                                               *)
(***************************************************************************)

\* a NULL char* (a decoded string is never empty, see the string parser)
NULL == <<>>

\* a NULL object pointer (channel_t*, epg_episode_t*, epg_season_t*, uri)
NIL == "NIL"

\* buf[i] of a C byte buffer (TLA+ sequences start at 1)
B(buf, i) == buf[i + 1]

RECURSIVE BitAnd(_, _)
\* the C operator a & b on non-negative ints
BitAnd(a, b) ==
  IF a = 0 \/ b = 0 THEN 0
  ELSE ((a % 2) * (b % 2)) + 2 * BitAnd(a \div 2, b \div 2)

RECURSIVE BitOr(_, _)
\* the C operator a | b on non-negative ints
BitOr(a, b) ==
  IF a = 0 THEN b
  ELSE IF b = 0 THEN a
  ELSE (IF (a % 2) + (b % 2) > 0 THEN 1 ELSE 0) + 2 * BitOr(a \div 2, b \div 2)

\* the C operator a << n
Shl(a, n) == a * (2 ^ n)

\* the two bytes of a big-endian u16
U16(x) == << x \div 256, x % 256 >>

RECURSIVE Flatten(_)
\* concatenation of a sequence of byte sequences
Flatten(ss) == IF ss = <<>> THEN <<>> ELSE Head(ss) \o Flatten(Tail(ss))

(***************************************************************************)
(* Configuration                                                           *)
(***************************************************************************)

OPENTV_STA_INIT == 0
OPENTV_STA_STARTED == 1
OPENTV_STA_COMPLETE == 2

OPENTV_TITLE == 1
OPENTV_SUMMARY == 2

\* the Huffman dictionary "d1": code (bits, most significant first) -> bytes.
\* 00 -> " ", 01 -> "H", 10 -> "W"; the node 11 does not exist.
Dict1 ==
  (<<0, 0>> :> <<32>>) @@ (<<0, 1>> :> <<72>>) @@ (<<1, 0>> :> <<87>>)

\* the dictionary registry after opentv_init
_opentv_dicts == [d \in {"d1"} |-> Dict1]

\* the provider registry after opentv_init: two providers sharing one dictionary.
\* PID lists are zero-terminated int arrays in C, so no PID is 0.
_opentv_provs ==
  [p \in {"A", "B"} |->
     IF p = "A"
     THEN [id |-> "A", name |-> "One", dict |-> "d1", nid |-> 2, tsid |-> 1, sid |-> 100,
           channel |-> <<17>>, title |-> <<48, 49>>, summary |-> <<64>>]
     ELSE [id |-> "B", name |-> "Two", dict |-> "d1", nid |-> 2, tsid |-> 2, sid |-> 200,
           channel |-> <<17>>, title |-> <<48>>, summary |-> <<64>>]]

\* one opentv_module_t per provider (opentv_init, "Create modules")
Mods == DOMAIN _opentv_provs

SeqRange(s) == {s[i] : i \in 1..Len(s)}

\* every PID _opentv_tune installs a table for
SubscribedPids(m) ==
  SeqRange(_opentv_provs[m].channel) \cup SeqRange(_opentv_provs[m].title)
    \cup SeqRange(_opentv_provs[m].summary)

(***************************************************************************)
(* Configuration loading                                                   *)
(***************************************************************************)

\* huffman_tree_build(m) for the code list m of a dictionary file: the tree,
\* or nothing (NULL) for a list no tree can be built from
huffman_tree_build(m) == IF m = "codes" THEN {Dict1} ELSE {}

\* variant: every dictionary id is found
DictFindAny(dicts, id) == {[id |-> id, codes |-> Dict1]}

\* _opentv_dict_find(id): RB_FIND in the dictionary registry
_opentv_dict_find(dicts, id) == {d \in dicts : d.id = id}

\* _opentv_dict_load(id, m): the return value and the registry after it
_opentv_dict_load(dicts, id, m) ==
  IF \E d \in dicts : d.id = id          \* RB_INSERT_SORTED finds the id
  THEN [r |-> 0, dicts |-> dicts]
  ELSE
    LET codes == huffman_tree_build(m) IN
    IF codes = {}
    THEN [r |-> 0 - 1, dicts |-> dicts]  \* RB_REMOVE of the entry just inserted
    ELSE [r |-> 1,
          dicts |-> dicts \cup {[id |-> id, codes |-> CHOOSE c \in codes : TRUE]}]

\* htsmsg_get_str / htsmsg_get_list / htsmsg_get_u32 find field f in the
\* record m of a settings file
Has(m, f) == f \in DOMAIN m

\* _pid_list_to_array: the non-zero entries (the array ends with a 0)
_pid_list_to_array(l) == SelectSeq(l, LAMBDA x : x # 0)

\* variant: the provider registry is not searched for the id
ProvFindNone(provs, id) == {}

\* RB_INSERT_SORTED(&_opentv_provs, prov, h_link, _prov_cmp): the entry
\* with that id, if any
ProvFind(provs, id) == {q \in provs : q.id = id}

\* _opentv_prov_load(id, m): the return value and the registry after it
_opentv_prov_load(provs, dicts, id, m) ==
  IF ~Has(m, "name") THEN [r |-> 0 - 1, provs |-> provs]
  ELSE IF ~Has(m, "dict") THEN [r |-> 0 - 1, provs |-> provs]
  ELSE IF _opentv_dict_find(dicts, m.dict) = {} THEN [r |-> 0 - 1, provs |-> provs]
  ELSE IF ~Has(m, "channel") THEN [r |-> 0 - 1, provs |-> provs]
  ELSE IF ~Has(m, "title") THEN [r |-> 0 - 5, provs |-> provs]
  ELSE IF ~Has(m, "summary") THEN [r |-> 0 - 1, provs |-> provs]
  ELSE IF ~Has(m, "nid") THEN [r |-> 0 - 1, provs |-> provs]
  ELSE IF ~Has(m, "tsid") THEN [r |-> 0 - 1, provs |-> provs]
  ELSE IF ~Has(m, "sid") THEN [r |-> 0 - 1, provs |-> provs]
  ELSE IF ProvFind(provs, id) # {} THEN [r |-> 0, provs |-> provs]
  ELSE [r |-> 1,
        provs |-> provs \cup
          {[id |-> id, name |-> m.name, dict |-> m.dict, nid |-> m.nid,
            tsid |-> m.tsid, sid |-> m.sid,
            channel |-> _pid_list_to_array(m.channel),
            title   |-> _pid_list_to_array(m.title),
            summary |-> _pid_list_to_array(m.summary)]}]

\* opentv_init, "Create modules": one module per registered provider
CreateModules(provs) ==
  { [id |-> <<"opentv-", q.id>>, name |-> <<"OpenTV: ", q.name>>, prov |-> q.id] :
    q \in provs }

(***************************************************************************)
(* Service manager and channels (collaborators)                            *)
(***************************************************************************)

\* the services of all muxes of all adapters: (tsid, sid) -> s_ch
Services ==
  { [tsid |-> 1, sid |-> 100, ch |-> "ch1"],
    [tsid |-> 1, sid |-> 101, ch |-> "ch0"],
    [tsid |-> 1, sid |-> 102, ch |-> NIL] }

\* ch_name of each channel; "ch0" is an unnamed channel
ch_name == ("ch1" :> "One") @@ ("ch0" :> "")

\* _opentv_find_service: the services with that tsid and sid (the empty set
\* stands for a NULL result)
_opentv_find_service(tsid, sid) ==
  {t \in Services : t.tsid = tsid /\ t.sid = sid}

\* _opentv_find_channel: t ? t->s_ch : NULL
_opentv_find_channel(tsid, sid) ==
  LET t == _opentv_find_service(tsid, sid)
  IN  IF t # {} THEN (CHOOSE x \in t : TRUE).ch ELSE NIL

(***************************************************************************)
(* Huffman decoding                                                        *)
(***************************************************************************)

\* a node of the tree: some code passes through it
HuffNode(tree, n) ==
  \E c \in DOMAIN tree : Len(c) >= Len(n) /\ SubSeq(c, 1, Len(n)) = n

RECURSIVE huffman_walk(_, _, _, _, _, _, _)
\* walk the tree bit by bit from byte pos (0-based) and bit mask; emitted
\* bytes stop at the output budget outl
huffman_walk(tree, data, pos, mask, node, out, outl) ==
  IF pos >= Len(data) THEN out
  ELSE IF mask = 0 THEN huffman_walk(tree, data, pos + 1, 128, node, out, outl)
  ELSE
    LET bit == IF BitAnd(B(data, pos), mask) # 0 THEN 1 ELSE 0
        n2  == Append(node, bit)
    IN  IF ~HuffNode(tree, n2) THEN out
        ELSE IF n2 \in DOMAIN tree
        THEN LET room == outl - Len(out)
                 leaf == tree[n2]
                 o2   == out \o SubSeq(leaf, 1, IF Len(leaf) < room THEN Len(leaf) ELSE room)
             IN  IF Len(o2) >= outl THEN o2
                 ELSE huffman_walk(tree, data, pos, mask \div 2, <<>>, o2, outl)
        ELSE huffman_walk(tree, data, pos, mask \div 2, n2, out, outl)

\* huffman_decode(tree, data, len, mask, outb, outl): [ok, str]; fails on
\* an empty input
huffman_decode(tree, data, mask, outl) ==
  IF Len(data) = 0 THEN [ok |-> FALSE, str |-> <<>>]
  ELSE [ok |-> TRUE, str |-> huffman_walk(tree, data, 0, mask, <<>>, <<>>, outl)]

\* a char compared with 0x20: char is signed, bytes >= 0x80 are negative
Printable(c) == c > 32 /\ c < 128

\* "Ignore (empty) strings": the result r of huffman_decode is kept when a
\* decoded char is > 0x20
IgnoreEmpty(r) ==
  IF r.ok /\ \E k \in 1..Len(r.str) : Printable(r.str[k]) THEN r.str ELSE NULL

\* ret = tmp = malloc(len+1); *ret = 0 in _opentv_parse_string: for
\* len < -1 the size is (size_t)(len+1), malloc gives NULL and the store
\* goes through NULL ("yes"); for len = -1 malloc(0) gives NULL or a block
\* of no bytes ("maybe"); else the store is in the block ("no")
ParseStringFault(len) ==
  IF len >= 0 THEN "no" ELSE IF len = 0 - 1 THEN "maybe" ELSE "yes"

\* the worse of two fault outcomes
Worse(a, b) ==
  IF a = "yes" \/ b = "yes" THEN "yes"
  ELSE IF a = "maybe" \/ b = "maybe" THEN "maybe" ELSE "no"

\* whether the process dies on a fault outcome
FaultOutcomes(f) ==
  IF f = "yes" THEN {TRUE} ELSE IF f = "maybe" THEN BOOLEAN ELSE {FALSE}

\* parse_string(prov, buf + off, len): the decoded string, or NULL
\* when no decoded char is > 0x20
_opentv_parse_string(prov, buf, off, len) ==
  IF len <= 0 THEN NULL
  ELSE IgnoreEmpty(huffman_decode(_opentv_dicts[prov.dict],
                                  SubSeq(buf, off + 1, off + len), 32, len))

(***************************************************************************)
(* EPG store (collaborator)                                                *)
(***************************************************************************)

\* epg_hash(title, summary, desc): a URI that is a function of the three
\* texts, or NULL when there is no text to hash
epg_hash(t, s, d) ==
  IF t = NULL /\ s = NULL /\ d = NULL THEN NULL ELSE <<t, s, d>>

\* a new episode (epg_episode_find_by_uri with create = 1)
NewEpisode(uri) ==
  [uri |-> uri, title |-> NULL, summary |-> NULL, description |-> NULL,
   genre |-> <<>>, season |-> NULL]

\* the episode with that URI
EpisodeOf(episodes, uri) == CHOOSE e \in episodes : e.uri = uri

\* the EPG channel "{provider_id}-{channel_id}" of the shared channel tree:
\* the set of entries with that id (the empty set stands for NULL)
epggrab_module_channel_find(chans, chid) == {c \in chans : c.id = chid}

\* sprintf(chid, "%s-%d", mod->prov->id, cid)
ChId(m, cid) == <<_opentv_provs[m].id, cid>>

\* sprintf(uri, "%s-%d-%d", mod->prov->id, cid, slink)
SeasonUri(m, cid, slink) == <<_opentv_provs[m].id, cid, slink>>

(***************************************************************************)
(* OpenTV event processing                                                 *)
(***************************************************************************)

\* the event list comparator
_ev_cmp(a, b) ==
  LET r == a.cid - b.cid IN IF r # 0 THEN r ELSE a.eid - b.eid

\* the skeleton of _opentv_parse_event: calloc, then cid and eid
opentv_event(cid, eid) ==
  [cid |-> cid, eid |-> eid, start |-> 0, stop |-> 0, title |-> NULL,
   summary |-> NULL, desc |-> NULL, cat |-> 0, series |-> 0, status |-> 0]

\* variant: the search finds no entry and the skeleton is inserted
RbFindNone(events, skel) == {}

\* RB_INSERT_SORTED(&_opentv_events, skel, ev_link, _ev_cmp): the entries
\* that compare equal to skel (none: skel itself is inserted)
RbFind(events, skel) == {e \in events : _ev_cmp(skel, e) = 0}

\* variant: the text field is assigned without the test
SetTextOverwrite(old, new) == new

\* if (!ev->title) ev->title = _opentv_parse_string(...): a text field that
\* is set is kept (the same for summary and desc)
SetText(old, new) == IF old = NULL THEN new ELSE old

\* variant: the start field read as a plain count of seconds
EventStartPlain(buf, off, mjd) ==
  BitOr(Shl(B(buf, off + 2), 8), B(buf, off + 3)) + mjd

\* ev->start = (((int)buf[2] << 9) | (buf[3] << 1)) + mjd
EventStart(buf, off, mjd) ==
  BitOr(Shl(B(buf, off + 2), 9), Shl(B(buf, off + 3), 1)) + mjd

\* variant: the stop is the duration field alone
EventStopAbs(buf, off, start) ==
  BitOr(Shl(B(buf, off + 4), 9), Shl(B(buf, off + 5), 1))

\* ev->stop = (((int)buf[4] << 9) | (buf[5] << 1)) + ev->start
EventStop(buf, off, start) ==
  BitOr(Shl(B(buf, off + 4), 9), Shl(B(buf, off + 5), 1)) + start

\* variant: a record that overruns the section is taken as its two header
\* bytes
RecordSizeFitting(rlen, len) == IF rlen + 2 <= len THEN rlen + 2 ELSE 2

\* return rlen + 2, whatever the remaining length len
RecordSize(rlen, len) == rlen + 2

\* _opentv_parse_event_record(prov, ev, buf + off, len, mjd): the event
\* after the record, and the record's size
_opentv_parse_event_record(prov, ev, buf, off, len, mjd) ==
  LET rtag == B(buf, off)
      rlen == B(buf, off + 1)
      start == EventStart(buf, off, mjd)
      stop  == EventStop(buf, off, start)
      ev2 ==
        IF rlen + 2 <= len
        THEN CASE rtag = 181 ->   \* 0xb5 title
                    [ev EXCEPT !.start = start, !.stop = stop,
                               !.cat = B(buf, off + 6),
                               !.title = SetText(@, _opentv_parse_string(prov, buf, off + 9, rlen - 7))]
               [] rtag = 185 ->   \* 0xb9 summary
                    [ev EXCEPT !.summary = SetText(@, _opentv_parse_string(prov, buf, off + 2, rlen))]
               [] rtag = 187 ->   \* 0xbb description
                    [ev EXCEPT !.desc = SetText(@, _opentv_parse_string(prov, buf, off + 2, rlen))]
               [] rtag = 193 ->   \* 0xc1 series link
                    [ev EXCEPT !.series = BitOr(Shl(B(buf, off + 2), 8), B(buf, off + 3))]
               [] OTHER -> ev
        ELSE ev
  IN  [ev |-> ev2, n |-> RecordSize(rlen, len)]

\* the fault outcome of the _opentv_parse_string call of one record: only a
\* 0xb5 record of an event without title passes a length that can be
\* negative (rlen - 7)
RecordFault(ev, buf, off, len) ==
  LET rtag == B(buf, off)
      rlen == B(buf, off + 1)
  IN  IF rlen + 2 <= len /\ rtag = 181 /\ ev.title = NULL
      THEN ParseStringFault(rlen - 7) ELSE "no"

RECURSIVE RecordLoopFault(_, _, _, _, _, _, _, _)
\* the fault outcome of the record loop of _opentv_parse_event
RecordLoopFault(prov, ev, buf, off, i, slen, len, mjd) ==
  IF i < slen + 4
  THEN LET r == _opentv_parse_event_record(prov, ev, buf, off + i, len - i, mjd)
       IN  Worse(RecordFault(ev, buf, off + i, len - i),
                 RecordLoopFault(prov, r.ev, buf, off, i + r.n, slen, len, mjd))
  ELSE "no"

RECURSIVE RecordLoop(_, _, _, _, _, _, _, _)
\* while (i < slen+4) i += _opentv_parse_event_record(prov, *ev, buf+i, len-i, mjd)
RecordLoop(prov, ev, buf, off, i, slen, len, mjd) ==
  IF i < slen + 4
  THEN LET r == _opentv_parse_event_record(prov, ev, buf, off + i, len - i, mjd)
       IN  RecordLoop(prov, r.ev, buf, off, i + r.n, slen, len, mjd)
  ELSE ev

\* int slen = ((int)buf[2] & 0xf << 8) | buf[3]: << binds tighter than &
EventSlen(buf, off) ==
  BitOr(BitAnd(B(buf, off + 2), Shl(15, 8)), B(buf, off + 3))

\* _opentv_parse_event(prov, buf + off, len, cid, mjd, &ev): the entry found
\* (old, empty when the skeleton was inserted), the event after its records,
\* and the size of the block
_opentv_parse_event(prov, events, buf, off, len, cid, mjd) ==
  LET slen == EventSlen(buf, off)
      skel == opentv_event(cid, BitOr(Shl(B(buf, off), 8), B(buf, off + 1)))
      old  == RbFind(events, skel)
      ev   == IF old = {} THEN skel ELSE CHOOSE e \in old : TRUE
  IN  [old |-> old,
       ev  |-> RecordLoop(prov, ev, buf, off, 4, slen, len, mjd),
       fault |-> RecordLoopFault(prov, ev, buf, off, 4, slen, len, mjd),
       n   |-> slen + 4]

\* variant: the season is taken as absent
SeasonAbsentAlways(ee) == TRUE

\* !ee->season
SeasonAbsent(ee) == ee.season = NULL

\* the emitter: lines "Find episode" to "Find broadcast" of
\* _opentv_parse_event_section, for a completed event ev
EmitEvent(m, st, ch, cid, ev) ==
  LET uri == epg_hash(ev.title, ev.summary, ev.desc) IN
  IF uri = NULL THEN st
  ELSE
    LET isnew == ~\E e \in st.episodes : e.uri = uri
        ee0 == IF isnew THEN NewEpisode(uri) ELSE EpisodeOf(st.episodes, uri)
        ee1 == IF ev.title # NULL THEN [ee0 EXCEPT !.title = ev.title] ELSE ee0
        ee2 == IF ev.summary # NULL THEN [ee1 EXCEPT !.summary = ev.summary] ELSE ee1
        ee3 == IF ev.desc # NULL THEN [ee2 EXCEPT !.description = ev.desc] ELSE ee2
        ee4 == IF ev.cat # 0 THEN [ee3 EXCEPT !.genre = <<ev.cat>>] ELSE ee3
        doseason == ev.series # 0 /\ SeasonAbsent(ee4)
        es  == SeasonUri(m, cid, ev.series)
        ee5 == IF doseason THEN [ee4 EXCEPT !.season = es] ELSE ee4
        bkey == [channel |-> ch, start |-> ev.start, stop |-> ev.stop, eid |-> ev.eid]
        bold == {b \in st.broadcasts : b.key = bkey}
        ebc  == [key |-> bkey, episode |-> uri]
        calls ==
          <<  <<"epg_episode_find_by_uri", uri>> >>
          \o (IF ev.title # NULL THEN << <<"epg_episode_set_title", uri, ev.title>> >> ELSE <<>>)
          \o (IF ev.summary # NULL THEN << <<"epg_episode_set_summary", uri, ev.summary>> >> ELSE <<>>)
          \o (IF ev.desc # NULL THEN << <<"epg_episode_set_description", uri, ev.desc>> >> ELSE <<>>)
          \o (IF ev.cat # 0 THEN << <<"epg_episode_set_genre", uri, <<ev.cat>> >> >> ELSE <<>>)
          \o (IF doseason THEN << <<"epg_season_find_by_uri", es>>,
                                  <<"epg_episode_set_season", uri, es>> >> ELSE <<>>)
          \o << <<"epg_broadcast_find_by_time", ch, ev.start, ev.stop, ev.eid>>,
                <<"epg_broadcast_set_episode", bkey, uri>> >>
        \* save: set by the creating finds and by the setters that change
        \* something (_opentv_find_season passes a save flag of its own)
        changed == isnew \/ ee5 # ee0 \/ ebc \notin st.broadcasts
    IN  [st EXCEPT
           !.episodes   = (@ \ {ee0}) \cup {ee5},
           !.seasons    = IF doseason THEN @ \cup {es} ELSE @,
           !.broadcasts = (@ \ bold) \cup {ebc},
           !.calls      = @ \o calls,
           !.emitted    = @ \cup {<<ev.cid, ev.eid>>},
           !.save       = @ \/ changed,
           \* some find or setter reported a change, the season find with
           \* its own flag included (not program state)
           !.reported   = @ \/ isnew \/ ee1 # ee0 \/ ee2 # ee1 \/ ee3 # ee2
                            \/ ee4 # ee3 \/ (doseason /\ es \notin st.seasons)
                            \/ ee5 # ee4 \/ ebc \notin st.broadcasts]

\* variant: ev->status = type
StatusAssign(status, type) == type

\* ev->status |= type
StatusOr(status, type) == BitOr(status, type)

\* variant: an event is never complete
EventCompleteNever(ev) == FALSE

\* variant: an event is complete as soon as one status bit is set
EventCompleteAny(ev) == ev.status # 0

\* ev->status != (OPENTV_TITLE | OPENTV_SUMMARY) is the incomplete case
EventComplete(ev) == ev.status = BitOr(OPENTV_TITLE, OPENTV_SUMMARY)

\* one round of the loop "around event entries", after _opentv_parse_event
\* gave r: the status bit, then emission and removal of a complete event
EventEntry(m, st, ch, cid, type, r) ==
  LET ev   == [r.ev EXCEPT !.status = StatusOr(@, type)]
      key  == <<ev.cid, ev.eid>>
      rest == st.events \ r.old
      \* which module's section created the entry (not program state)
      own  == IF r.old = {} THEN st.owner \cup {<<key, m>>} ELSE st.owner
      st1  == [st EXCEPT !.touched = @ \cup {o[2] : o \in {x \in own : x[1] = key}},
                         !.keys = @ \cup {key},
                         !.blocks = @ + 1,
                         !.owner = own]
  IN  IF ~EventComplete(ev)
      THEN [st1 EXCEPT !.events = rest \cup {ev}]
      ELSE [EmitEvent(m, st1, ch, cid, ev) EXCEPT
              !.events  = rest,
              !.owner   = {x \in @ : x[1] # key},
              !.removed = @ \cup {ev}]

RECURSIVE EventLoop(_, _, _, _, _, _, _, _, _)
\* the loop "around event entries" of _opentv_parse_event_section
EventLoop(m, st, ch, buf, i, len, cid, mjd, type) ==
  IF i < len
  THEN
    LET r == _opentv_parse_event(_opentv_provs[m], st.events, buf, i, len - i, cid, mjd)
    IN  EventLoop(m, [EventEntry(m, st, ch, cid, type, r) EXCEPT
                        !.fault = Worse(@, r.fault)],
                  ch, buf, i + r.n, len, cid, mjd, type)
  ELSE st

\* variant: epg_updated() after every section
EpgUpdatedAlways(r) == [r EXCEPT !.calls = Append(@, <<"epg_updated">>)]

\* if (save) epg_updated(), for the store r the loop left
EpgUpdated(r) ==
  IF r.save THEN [r EXCEPT !.calls = Append(@, <<"epg_updated">>)] ELSE r

\* variant: every section is decoded, for channel "ch1"
SectionChannelAny(ec) == "ch1"

\* variant: the channel name is not tested
SectionChannelBound(ec) ==
  IF ec = {} THEN NIL ELSE (CHOOSE c \in ec : TRUE).channel

\* the three tests under "Channel" for the result ec of the EPG channel
\* lookup: the broadcast channel of the section's events, NIL when the
\* section is ignored (return 0)
SectionChannel(ec) ==
  IF ec = {} THEN NIL
  ELSE LET ch == (CHOOSE c \in ec : TRUE).channel
       IN  IF ch = NIL THEN NIL
           ELSE IF ch_name[ch] = "" THEN NIL
           ELSE ch

\* _opentv_parse_event_section(mod, buf, len, type); st carries the partial
\* events, the EPG store and the record of what this call did
_opentv_parse_event_section(m, st, buf, len, type) ==
  LET cid == BitOr(Shl(B(buf, 0), 8), B(buf, 1))
      ch  == SectionChannel(epggrab_module_channel_find(st.channels, ChId(m, cid)))
      mjd == (BitOr(Shl(B(buf, 5), 8), B(buf, 6)) - 40587) * 86400
  IN  IF ch = NIL THEN st
      ELSE EpgUpdated(EventLoop(m, st, ch, buf, 7, len, cid, mjd, type))

(***************************************************************************)
(* OpenTV channel processing                                               *)
(***************************************************************************)

RECURSIVE BatRecLoop(_, _, _, _, _, _)
\* while (dlen > 0): one 9-byte channel mapping per round
BatRecLoop(m, chans, buf, k, dlen, tsid) ==
  IF dlen > 0
  THEN
    LET sid  == BitOr(Shl(B(buf, k), 8), B(buf, k + 1))
        cid  == BitOr(Shl(B(buf, k + 3), 8), B(buf, k + 4))
        ch   == _opentv_find_channel(tsid, sid)
        ec   == epggrab_module_channel_find(chans, ChId(m, cid))
        \* created (save = 1): ec->channel = ch; found: left as it is
        ch2  == IF ch # NIL /\ ec = {}
                THEN chans \cup {[id |-> ChId(m, cid), channel |-> ch]}
                ELSE chans
    IN  BatRecLoop(m, ch2, buf, k + 9, dlen - 9, tsid)
  ELSE chans

RECURSIVE BatDescLoop(_, _, _, _, _, _)
\* while (tdlen > 0): one descriptor per round, tag 0xb1 is decoded
BatDescLoop(m, chans, buf, j, tdlen, tsid) ==
  IF tdlen > 0
  THEN
    LET dtag == B(buf, j)
        dlen == B(buf, j + 1)
        ch2  == IF dtag = 177
                THEN BatRecLoop(m, chans, buf, j + 2 + 2, dlen - 2, tsid)
                ELSE chans
    IN  BatDescLoop(m, ch2, buf, j + dlen + 2, tdlen - (dlen + 2), tsid)
  ELSE chans

RECURSIVE BatTsLoop(_, _, _, _, _)
\* while (tslen > 0): one transport stream entry per round
BatTsLoop(m, chans, buf, i, tslen) ==
  IF tslen > 0
  THEN
    LET tsid  == BitOr(Shl(B(buf, i), 8), B(buf, i + 1))
        tdlen == BitOr(Shl(BitAnd(B(buf, i + 4), 15), 8), B(buf, i + 5))
        ch2   == BatDescLoop(m, chans, buf, i + 6, tdlen, tsid)
    IN  BatTsLoop(m, ch2, buf, i + tdlen + 6, tslen - (tdlen + 6))
  ELSE chans

\* _opentv_bat_section(mod, buf, len): the channel tree after the section
_opentv_bat_section(m, chans, buf, len) ==
  LET i     == 7 + BitOr(Shl(BitAnd(B(buf, 5), 15), 8), B(buf, 6))
      tslen == BitOr(Shl(BitAnd(B(buf, i), 15), 8), B(buf, i + 1))
  IN  BatTsLoop(m, chans, buf, i + 2, tslen)

(***************************************************************************)
(* Carousel subscription (collaborator) and table callbacks                *)
(***************************************************************************)

\* epggrab_ota_register: the handle of (module, mux), created idle
epggrab_ota_register(o) == IF o = "NONE" THEN "IDLE" ELSE o

\* epggrab_ota_unregister_one: the handle of (module, mux) is dropped
epggrab_ota_unregister_one(o) == "NONE"

\* epggrab_ota_is_complete
epggrab_ota_is_complete(o) == o = "COMPLETE"

\* epggrab_ota_begin: true when this call starts a pass
epggrab_ota_begin(o) == o = "IDLE"

\* variant: the entry records the PID it was allocated for
opentv_status_pid(pid) ==
  [pid |-> pid, status |-> OPENTV_STA_INIT, start |-> [k \in 1..20 |-> 0]]

\* a calloc'ed opentv_status_t as _opentv_table_callback links it: no field
\* is assigned before LIST_INSERT_HEAD, so pid stays 0
opentv_status(pid) ==
  [pid |-> 0, status |-> OPENTV_STA_INIT, start |-> [k \in 1..20 |-> 0]]

\* variant: the search stops at the head of the list
StatusFindHead(list, pid) == IF Len(list) > 0 THEN 1 ELSE 0

\* LIST_FOREACH(sta, &mod->status, link) if (sta->pid == pid) break;
\* the position of the first such entry, 0 for none
StatusFind(list, pid) ==
  IF \E k \in 1..Len(list) : list[k].pid = pid
  THEN CHOOSE k \in 1..Len(list) :
         list[k].pid = pid /\ \A j \in 1..(k - 1) : list[j].pid # pid
  ELSE 0

\* variant: a new pass keeps the statuses of the pass before
StatusKeep(list) == list

\* LIST_FOREACH(sta, &mod->status, link) sta->status = OPENTV_STA_INIT;
StatusReset(list) ==
  [k \in 1..Len(list) |-> [list[k] EXCEPT !.status = OPENTV_STA_INIT]]

\* variant: the fingerprint is the whole section
FingerprintWhole(buf) == buf

\* variant: no section is too short
TooShortNever(len) == FALSE

\* "Ignore (not enough data)": if (len < 20) return NULL
TooShort(len) == len < 20

\* the 20 bytes memcpy and memcmp take from buf; a section of fewer bytes
\* has been ignored before (bytes past its end are read as 0 here)
Fingerprint(buf) ==
  IF Len(buf) >= 20 THEN SubSeq(buf, 1, 20)
  ELSE buf \o [k \in 1..(20 - Len(buf)) |-> 0]

\* variant: a complete subscription is not tested
FinishedNever(o) == FALSE

\* "Finished": if (epggrab_ota_is_complete(ota)) return NULL
Finished(o) == epggrab_ota_is_complete(o)

\* _opentv_table_callback(tdmi, buf, len, tid, p) for module state (o, list)
\* and tdt_pid pid: ret is "returns mod"; k is the position of sta
_opentv_table_callback(o, list, pid, buf, len) ==
  IF TooShort(len)
  THEN [ret |-> FALSE, ota |-> o, status |-> list, begun |-> FALSE,
        completed |-> FALSE, k |-> 0]
  ELSE
    LET o1 == epggrab_ota_register(o) IN
    IF Finished(o1)
    THEN [ret |-> FALSE, ota |-> o1, status |-> list, begun |-> FALSE,
          completed |-> FALSE, k |-> 0]
    ELSE
      LET begun == epggrab_ota_begin(o1)
          o2 == IF begun THEN "RUNNING" ELSE o1
          l1 == IF begun THEN StatusReset(list) ELSE list
          f  == StatusFind(l1, pid)
          l2 == IF f = 0 THEN <<opentv_status(pid)>> \o l1 ELSE l1
          k  == IF f = 0 THEN 1 ELSE f
          sta == l2[k]
          fp  == Fingerprint(buf)   \* memcpy/memcmp(sta->start, buf, 20)
      IN  IF sta.status = OPENTV_STA_INIT
          THEN [ret |-> TRUE, ota |-> o2,
                status |-> [l2 EXCEPT ![k].status = OPENTV_STA_STARTED, ![k].start = fp],
                begun |-> begun, completed |-> FALSE, k |-> k]
          ELSE IF sta.status = 1 /\ sta.start = fp
          THEN LET l3 == [l2 EXCEPT ![k].status = OPENTV_STA_COMPLETE] IN
               IF \E j \in 1..Len(l3) : l3[j].status # OPENTV_STA_COMPLETE
               THEN [ret |-> TRUE, ota |-> o2, status |-> l3, begun |-> begun,
                     completed |-> FALSE, k |-> k]
               ELSE [ret |-> FALSE, ota |-> "COMPLETE", status |-> l3,
                     begun |-> begun, completed |-> TRUE, k |-> k]
          ELSE [ret |-> FALSE, ota |-> "COMPLETE", status |-> l2,
                begun |-> begun, completed |-> TRUE, k |-> k]

(***************************************************************************)
(* Sections the demux delivers                                             *)
(***************************************************************************)

Zeros(n) == [k \in 1..n |-> 0]

\* 0xb5 record: start and duration fields, category, two skipped bytes, text
TitleRec(start, dur, cat, text) ==
  <<181, 7 + Len(text)>> \o U16(start) \o U16(dur) \o <<cat, 0, 0>> \o text

\* 0xb9 record
SummaryRec(text) == <<185, Len(text)>> \o text

\* 0xbb record
DescRec(text) == <<187, Len(text)>> \o text

\* 0xc1 record
SeriesRec(link) == <<193, 2>> \o U16(link)

\* a record with a tag the decoder does not know
OtherRec(n) == <<1, n>> \o Zeros(n)

\* an event block: event id, 4 flag bits and a 12-bit length, the records
EvBlock(eid, recs) ==
  LET body == Flatten(recs)
  IN  U16(eid) \o U16(61440 + Len(body)) \o body

\* a title or summary section: channel id, three bytes, MJD, event blocks
EvSection(cid, mjd, blocks) ==
  U16(cid) \o <<0, 0, 0>> \o U16(mjd) \o Flatten(blocks)

\* a BAT section with an empty bouquet descriptor loop and one transport
\* stream entry whose 0xb1 descriptor maps service ids to channel ids
BatSection(tsid, maps) ==
  LET recs == Flatten([k \in 1..Len(maps) |->
                 U16(maps[k][1]) \o <<0>> \o U16(maps[k][2]) \o U16(k) \o <<0, 0>>])
      desc == <<177, 2 + Len(recs)>> \o <<0, 0>> \o recs
      ts   == U16(tsid) \o U16(2) \o U16(61440 + Len(desc)) \o desc
  IN  Zeros(5) \o U16(61440) \o U16(61440 + Len(ts)) \o ts

\* encoded texts under Dict1: "HH", "WW", two spaces, and an immediate end
TextH == <<21, 255>>
TextW == <<42, 255>>
TextBlank == <<0, 255>>
TextEnd == <<63, 255>>

\* title sections: event 0x1234 of channel 0x42 titled "HH"; the same event
\* titled "WW" at another time, with a second event; the same event with a
\* title that decodes to blanks
SecTitleH == EvSection(66, 40588, <<EvBlock(4660, <<TitleRec(1, 1, 16, TextH)>>)>>)
SecTitleW ==
  EvSection(66, 40588, <<EvBlock(4660, <<TitleRec(2, 3, 32, TextW)>>),
                         EvBlock(4661, <<TitleRec(4, 1, 16, TextH)>>)>>)
SecTitleBlank == EvSection(66, 40588, <<EvBlock(4660, <<TitleRec(1, 2, 0, TextBlank)>>)>>)

\* summary sections: summary "WW" with a description and a series link; a
\* summary that decodes to nothing; a short section
SecSummaryW ==
  EvSection(66, 40588, <<EvBlock(4660, <<SummaryRec(TextW), DescRec(TextH),
                                         SeriesRec(5), OtherRec(1)>>)>>)
SecSummaryBlank ==
  EvSection(66, 40588, <<EvBlock(4660, <<SummaryRec(TextEnd), OtherRec(5)>>)>>)
SecShort == EvSection(66, 40588, <<EvBlock(4660, <<SummaryRec(TextW), OtherRec(2)>>)>>)

\* sections of the guide of day 59000 for channel 0x42: titles of events
\* 0x1234 (start field 0x0200, duration field 0x0080) and 0x1235; an event
\* block of the title table without a title record; summaries of both
\* events, the first with series link 6
SecTitleHello ==
  EvSection(66, 59000, <<EvBlock(4660, <<TitleRec(512, 128, 16, TextH)>>),
                         EvBlock(4661, <<TitleRec(0, 1, 16, TextW)>>)>>)
SecTitleBare == EvSection(66, 59000, <<EvBlock(4660, <<OtherRec(7)>>)>>)
SecSummarySeries6 ==
  EvSection(66, 59000, <<EvBlock(4660, <<SummaryRec(TextW), DescRec(TextH),
                                         SeriesRec(6)>>),
                         EvBlock(4661, <<SummaryRec(TextW)>>)>>)

\* a title and a summary section for channel id 0x43
SecTitle67 == EvSection(67, 59000, <<EvBlock(4660, <<TitleRec(1, 1, 16, TextH)>>)>>)
SecSummary67 ==
  EvSection(67, 59000, <<EvBlock(4660, <<SummaryRec(TextW), OtherRec(3)>>)>>)

\* a title section whose first event block has a payload of 256 bytes (one
\* unknown record of 254 bytes), and a summary section whose last record
\* declares 50 bytes where 2 are left in the section
SecTitleLong ==
  EvSection(66, 59000, <<EvBlock(4660, <<OtherRec(254)>>),
                         EvBlock(4661, <<TitleRec(2, 1, 16, TextW)>>)>>)
SecSummaryOver ==
  EvSection(66, 59000, <<EvBlock(4660, <<OtherRec(7), DescRec(TextH),
                                         <<185, 50>> \o TextW>>)>>)

\* SecTitleHello with a first title that decodes to blanks: the same first
\* 20 bytes, another body
SecTitleHelloBlank ==
  EvSection(66, 59000, <<EvBlock(4660, <<TitleRec(512, 128, 16, TextBlank)>>),
                         EvBlock(4661, <<TitleRec(0, 1, 16, TextW)>>)>>)

\* title sections whose 0xb5 record has 5 and 6 payload bytes: start,
\* duration and category (and one more byte), no text
SecTitleShort5 ==
  EvSection(66, 59000, <<EvBlock(4662, << <<181, 5>> \o U16(3) \o U16(2) \o <<16>>,
                                          OtherRec(2) >>)>>)
SecTitleShort6 ==
  EvSection(66, 59000, <<EvBlock(4662, << <<181, 6>> \o U16(3) \o U16(2) \o <<16, 0>>,
                                          OtherRec(1) >>)>>)

\* a BAT section that maps service 101 to the channel id SecBat gives to
\* service 100
SecBatMove == BatSection(1, << <<101, 66>>, <<102, 70>> >>)

\* BAT sections: services 100 (named channel), 101 (unnamed channel),
\* 102 (no channel) and 103 (unknown)
SecBat == BatSection(1, << <<100, 66>>, <<101, 67>>, <<102, 68>>, <<103, 69>> >>)

(***************************************************************************)
(* State                                                                   *)
(***************************************************************************)

VARIABLES
  status,      \* mod->status of each module: list of opentv_status_t, head first
  ota,         \* the carousel subscription of each module on its mux
  events,      \* _opentv_events, the partial events (one tree for all modules)
  channels,    \* _opentv_channels, the EPG channels (one tree for all modules)
  episodes,    \* EPG store: episodes
  seasons,     \* EPG store: season URIs
  broadcasts,  \* EPG store: broadcasts
  owner,       \* history: the module whose section created each partial event
  sta_of,      \* history: per module and PID, the entry (counted from the
               \* tail of the list) the last callback on that PID resolved
  hist,        \* history: the sections delivered so far
  ncomplete,   \* history: number of epggrab_ota_complete calls per module
  last,        \* history: what the last callback did
  enabled,     \* m->enabled of each module
  boot,        \* opentv_init: the registries, the modules and the load log
  lock,        \* the thread that holds the global lock, NIL when free
  pc           \* where each demux thread is with the section it delivers

\* service.c
VARIABLES
  s_status,            \* t->s_status of each service
  s_refcount,          \* t->s_refcount of each service
  s_ps_onqueue,        \* t->s_ps_onqueue of each service
  pending_save_queue,  \* the queue, head first
  pending_save_mutex,  \* the thread that holds the mutex, or NIL
  tvheadend_running,   \* the flag the saver loop tests
  sil,                 \* a subscription's service instance list, head first
  thr,                 \* the place of each thread of the service manager
  sv                   \* history: freed services, calls of the saver, faults

service_vars == <<s_status, s_refcount, s_ps_onqueue, pending_save_queue,
                  pending_save_mutex, tvheadend_running, sil, thr, sv>>

service_vars_but_thr == <<s_status, s_refcount, s_ps_onqueue, pending_save_queue,
                          pending_save_mutex, tvheadend_running, sil, sv>>

opentv_vars == <<status, ota, events, channels, episodes, seasons, broadcasts,
                 owner, sta_of, hist, ncomplete, last, enabled, boot, pc>>

vars == <<status, ota, events, channels, episodes, seasons, broadcasts,
          owner, sta_of, hist, ncomplete, last, enabled, boot, lock, pc,
          s_status, s_refcount, s_ps_onqueue, pending_save_queue,
          pending_save_mutex, tvheadend_running, sil, thr, sv>>

\* the services, and the threads that use them: the saver, two threads that
\* request saves, and the main thread
Svc == {"s1", "s2"}

Requesters == {"w1", "w2"}

SvcThreads == {"saver", "main"} \cup Requesters

\* a thread that is in no function of service.c
Out == [at |-> "out", t |-> "none", restart |-> FALSE]

\* error codes of a subscription (streaming.h)
SM_CODE_NO_FREE_ADAPTER == 200
SM_CODE_TUNING_FAILED == 203

\* history: no call of service_find_instance yet
NoFind ==
  [called |-> FALSE, ret |-> NULL, ret_error |-> 0, ret_status |-> "none",
   err_in |-> 0, err_out |-> 0, started |-> NULL, cand_error |-> 0,
   cand_status |-> "none", start_error |-> 0, path |-> "none"]

\* the state service_init and service_create0 leave: every service idle
\* with one reference and off the queue, the saver thread created
ServiceInit ==
  /\ s_status = [t \in Svc |-> "IDLE"]
  /\ s_refcount = [t \in Svc |-> 1]
  /\ s_ps_onqueue = [t \in Svc |-> 0]
  /\ pending_save_queue = <<>>
  /\ pending_save_mutex = NIL
  /\ tvheadend_running = TRUE
  /\ sil = <<>>
  /\ thr = [u \in SvcThreads |-> IF u = "saver" THEN [Out EXCEPT !.at = "start"]
                                  ELSE Out]
  /\ sv = [freed |-> {}, log |-> <<>>, uaf |-> FALSE, assert |-> FALSE,
           wanted |-> [t \in Svc |-> FALSE],
           deq |-> [st |-> "none", asked |-> FALSE], nreq |-> 0,
           find |-> NoFind]

\* the status entry the callbacks on PID p last worked on (a calloc'ed one
\* when there was none)
PidSta(m, p) ==
  IF sta_of[m][p] = 0 THEN opentv_status(p)
  ELSE status[m][Len(status[m]) - sta_of[m][p] + 1]

EventKeys(evs) == {<<e.cid, e.eid>> : e \in evs}

NoLast ==
  [op |-> "none", mod |-> "none", pid |-> 0, buf |-> <<>>, ret |-> FALSE,
   live |-> FALSE, begun |-> FALSE, completed |-> FALSE, calls |-> <<>>,
   removed |-> {}, emitted |-> {}, touched |-> {}, keys |-> {}, gone |-> {},
   before |-> {}, pre |-> opentv_status(0), reported |-> FALSE]

\* the demux threads
Threads == {"t1", "t2"}

\* a thread outside the section callbacks
Idle == [at |-> "idle", role |-> "none", mod |-> "none", pid |-> 0, buf |-> <<>>]

\* opentv_init done for the settings that hold dictionary d1 and the
\* providers A and B
Booted ==
  [phase |-> "run",
   dicts |-> {[id |-> d, codes |-> _opentv_dicts[d]] : d \in DOMAIN _opentv_dicts},
   provs |-> {_opentv_provs[q] : q \in DOMAIN _opentv_provs},
   modules |-> CreateModules({_opentv_provs[q] : q \in DOMAIN _opentv_provs}),
   log |-> <<>>]

\* the modules after opentv_init, each enabled and its tables installed
\* by _opentv_tune; no section has arrived
Init ==
  /\ ServiceInit
  /\ enabled = [m \in Mods |-> TRUE]
  /\ boot = Booted
  /\ lock = NIL
  /\ pc = [t \in Threads |-> Idle]
  /\ status = [m \in Mods |-> <<>>]
  /\ ota = [m \in Mods |-> "NONE"]
  /\ events = {}
  /\ channels = {}
  /\ episodes = {}
  /\ seasons = {}
  /\ broadcasts = {}
  /\ owner = {}
  /\ sta_of = [m \in Mods |-> [p \in SubscribedPids(m) |-> 0]]
  /\ hist = <<>>
  /\ ncomplete = [m \in Mods |-> 0]
  /\ last = NoLast

\* the data a section decoder works on
Store ==
  [events |-> events, channels |-> channels, episodes |-> episodes,
   seasons |-> seasons, broadcasts |-> broadcasts, owner |-> owner,
   calls |-> <<>>, save |-> FALSE, removed |-> {}, emitted |-> {},
   touched |-> {}, keys |-> {}, blocks |-> 0, reported |-> FALSE,
   fault |-> "no"]

\* the decoder of each role
Decode(role, m, st, buf, len) ==
  CASE role = "title"   -> _opentv_parse_event_section(m, st, buf, len, OPENTV_TITLE)
    [] role = "summary" -> _opentv_parse_event_section(m, st, buf, len, OPENTV_SUMMARY)
    [] role = "channel" -> [st EXCEPT !.channels = _opentv_bat_section(m, @, buf, len)]

\* the state after a section callback in which _opentv_table_callback gave
\* t and the decoder left the store st
Deliver(role, m, pid, buf, t, st) ==
  LET live == Len(buf) >= 20
              /\ ~epggrab_ota_is_complete(epggrab_ota_register(ota[m]))
  IN  /\ status' = [status EXCEPT ![m] = t.status]
      /\ ota' = [ota EXCEPT ![m] = t.ota]
      /\ UNCHANGED service_vars
      /\ UNCHANGED enabled
      \* a store through NULL ends the process
      /\ \E dead \in FaultOutcomes(st.fault) :
           boot' = IF dead THEN [boot EXCEPT !.phase = "dead"] ELSE boot
      /\ events' = st.events
      /\ channels' = st.channels
      /\ episodes' = st.episodes
      /\ seasons' = st.seasons
      /\ broadcasts' = st.broadcasts
      /\ owner' = st.owner
      /\ sta_of' = IF t.k = 0 THEN sta_of
                   ELSE [sta_of EXCEPT ![m][pid] = Len(t.status) - t.k + 1]
      /\ hist' = Append(hist, [mod |-> m, pid |-> pid, buf |-> buf,
                               live |-> live, begun |-> t.begun])
      /\ ncomplete' = IF t.completed THEN [ncomplete EXCEPT ![m] = @ + 1]
                      ELSE ncomplete
      /\ last' = [op |-> role, mod |-> m, pid |-> pid, buf |-> buf,
                  ret |-> t.ret, live |-> live, begun |-> t.begun,
                  completed |-> t.completed,
                  calls |-> st.calls, removed |-> st.removed,
                  emitted |-> st.emitted, touched |-> st.touched,
                  keys |-> st.keys,
                  gone |-> EventKeys(events) \ EventKeys(st.events),
                  before |-> events,
                  pre |-> PidSta(m, pid),
                  reported |-> st.reported]

\* a section callback: _opentv_table_callback, then the role's decoder when
\* it returned the module
Callback(role, m, pid, buf) ==
  LET t == _opentv_table_callback(ota[m], status[m], pid, buf, Len(buf))
  IN  /\ boot.phase = "run"
      /\ Deliver(role, m, pid, buf, t,
                 IF t.ret THEN Decode(role, m, Store, buf, Len(buf)) ELSE Store)

_opentv_title_callback(m, pid, buf) == Callback("title", m, pid, buf)

_opentv_summary_callback(m, pid, buf) == Callback("summary", m, pid, buf)

_opentv_channel_callback(m, pid, buf) == Callback("channel", m, pid, buf)

\* the per-pass budget (OPENTV_SCAN_MAX) of a running pass elapses
OtaTimeout(m) ==
  /\ boot.phase = "run"
  /\ ota[m] = "RUNNING"
  /\ ota' = [ota EXCEPT ![m] = "COMPLETE"]
  /\ last' = [NoLast EXCEPT !.op = "timeout", !.mod = m]
  /\ UNCHANGED service_vars
  /\ UNCHANGED <<status, events, channels, episodes, seasons, broadcasts,
                 owner, sta_of, hist, ncomplete, enabled, boot, lock, pc>>

\* the interval (OPENTV_SCAN_PER) after a completed pass elapses
OtaPeriod(m) ==
  /\ boot.phase = "run"
  /\ ota[m] = "COMPLETE"
  /\ ota' = [ota EXCEPT ![m] = "IDLE"]
  /\ last' = [NoLast EXCEPT !.op = "period", !.mod = m]
  /\ UNCHANGED service_vars
  /\ UNCHANGED <<status, events, channels, episodes, seasons, broadcasts,
                 owner, sta_of, hist, ncomplete, enabled, boot, lock, pc>>

\* _opentv_enable(m, e) for the mux of the module's provider: nothing when
\* the flag has that value already, else the flag is set and the carousel
\* subscription is registered or unregistered; the installed tables are
\* left as they are
_opentv_enable(m, e) ==
  \/ /\ enabled[m] = e
     /\ UNCHANGED vars
  \/ /\ enabled[m] # e
     /\ enabled' = [enabled EXCEPT ![m] = e]
     /\ ota' = [ota EXCEPT ![m] = IF e THEN epggrab_ota_register(@)
                                  ELSE epggrab_ota_unregister_one(@)]
     /\ last' = [NoLast EXCEPT !.op = "enable", !.mod = m]
     /\ UNCHANGED service_vars
     /\ UNCHANGED <<status, events, channels, episodes, seasons, broadcasts,
                    owner, sta_of, hist, ncomplete, boot, lock, pc>>

\* opentv_init, "Load dictionaries": one record of the dictionary file
opentv_init_dict(id, m) ==
  LET res == _opentv_dict_load(boot.dicts, id, m) IN
  /\ boot.phase = "dict"
  /\ boot' = [boot EXCEPT !.dicts = res.dicts,
                          !.log = Append(@, [kind |-> "dict", id |-> id,
                                             m |-> [codes |-> m], r |-> res.r])]
  /\ UNCHANGED service_vars
  /\ UNCHANGED <<status, ota, events, channels, episodes, seasons, broadcasts,
                 owner, sta_of, hist, ncomplete, last, enabled, lock, pc>>

\* opentv_init, "Load providers": one record of the provider file, after
\* the dictionary file has been read
opentv_init_prov(id, m) ==
  LET res == _opentv_prov_load(boot.provs, boot.dicts, id, m) IN
  /\ boot.phase \in {"dict", "prov"}
  /\ boot' = [boot EXCEPT !.phase = "prov",
                          !.provs = res.provs,
                          !.log = Append(@, [kind |-> "prov", id |-> id,
                                             m |-> m, r |-> res.r])]
  /\ UNCHANGED service_vars
  /\ UNCHANGED <<status, ota, events, channels, episodes, seasons, broadcasts,
                 owner, sta_of, hist, ncomplete, last, enabled, lock, pc>>

\* opentv_init, "Create modules", after both files have been read
opentv_init_modules ==
  /\ boot.phase \in {"dict", "prov"}
  /\ boot' = [boot EXCEPT !.phase = "run", !.modules = CreateModules(boot.provs)]
  /\ UNCHANGED service_vars
  /\ UNCHANGED <<status, ota, events, channels, episodes, seasons, broadcasts,
                 owner, sta_of, hist, ncomplete, last, enabled, lock, pc>>

\* variant: the global lock is taken without waiting for it
GlobalLockFreeAlways(l) == TRUE

\* pthread_mutex_lock(&global_lock) returns when no thread holds the lock
GlobalLockFree(l) == l = NIL

\* demux thread t takes the global lock to deliver a section of role role
\* to the callback of module m on PID pid
LockEnter(t, role, m, pid, buf) ==
  /\ pc[t].at = "idle"
  /\ GlobalLockFree(lock)
  /\ lock' = t
  /\ pc' = [pc EXCEPT ![t] = [at |-> "entered", role |-> role, mod |-> m,
                              pid |-> pid, buf |-> buf]]
  /\ UNCHANGED service_vars
  /\ UNCHANGED <<status, ota, events, channels, episodes, seasons, broadcasts,
                 owner, sta_of, hist, ncomplete, last, enabled, boot>>

\* thread t runs the section callback it entered
LockRun(t) ==
  /\ pc[t].at = "entered"
  /\ Callback(pc[t].role, pc[t].mod, pc[t].pid, pc[t].buf)
  /\ pc' = [pc EXCEPT ![t].at = "done"]
  /\ UNCHANGED lock

\* thread t releases the global lock after its callback returned
LockLeave(t) ==
  /\ pc[t].at = "done"
  /\ lock' = IF lock = t THEN NIL ELSE lock
  /\ pc' = [pc EXCEPT ![t] = Idle]
  /\ UNCHANGED service_vars
  /\ UNCHANGED <<status, ota, events, channels, episodes, seasons, broadcasts,
                 owner, sta_of, hist, ncomplete, last, enabled, boot>>

(***************************************************************************)
(* Service manager: references, pending saves, the saver thread            *)
(***************************************************************************)

\* variant: the object is freed when the count was 2 or less
FreesEarly(old) == old <= 2

\* (atomic_add(&t->s_refcount, -1)) == 1: the test of service_unref on the
\* value the count had
Frees(old) == old = 1

\* service_ref(t) on the reference counts rc
service_ref(rc, t) == [rc EXCEPT ![t] = @ + 1]

\* service_unref(t): the counts after it
service_unref(rc, t) == [rc EXCEPT ![t] = @ - 1]

\* service_unref(t): the freed services after it
AfterUnref(freed, rc, t) == IF Frees(rc[t]) THEN freed \cup {t} ELSE freed

\* a field of service t is read or written: a fault when t was freed
Touch(h, t) == [h EXCEPT !.uaf = @ \/ t \in h.freed]

\* t->s_status = SERVICE_RUNNING in service_start when s_start_feed gave r;
\* the status is left as it was when r is not 0
service_start(st, t, r) == IF r # 0 THEN st ELSE [st EXCEPT ![t] = "RUNNING"]

\* t->s_status = SERVICE_IDLE in service_stop
service_stop(st, t) == [st EXCEPT ![t] = "IDLE"]

\* variant: a request for a queued service does not upgrade it
UpgradeNever(restart) == FALSE

\* else if(restart) in service_request_save
Upgrade(restart) == restart

\* service_request_save(t, restart) in thread u: pthread_mutex_lock. The
\* caller passes a service that was not destroyed.
RequestLock(u, t, restart) ==
  /\ thr[u].at = "out"
  /\ s_status[t] # "ZOMBIE"
  /\ pending_save_mutex = NIL
  /\ pending_save_mutex' = u
  /\ thr' = [thr EXCEPT ![u] = [at |-> "locked", t |-> t, restart |-> restart]]
  /\ sv' = [sv EXCEPT !.nreq = @ + 1]
  /\ UNCHANGED <<opentv_vars, lock, s_status, s_refcount, s_ps_onqueue,
                 pending_save_queue, tvheadend_running, sil>>

\* if(!t->s_ps_onqueue) { s_ps_onqueue = 1 + !!restart; TAILQ_INSERT_TAIL }
\* else if(restart) s_ps_onqueue = 2
RequestQueue(u) ==
  LET t == thr[u].t
      restart == thr[u].restart
  IN  /\ thr[u].at = "locked"
      /\ IF s_ps_onqueue[t] = 0
         THEN /\ s_ps_onqueue' = [s_ps_onqueue EXCEPT
                                    ![t] = 1 + (IF restart THEN 1 ELSE 0)]
              /\ pending_save_queue' = Append(pending_save_queue, t)
              /\ thr' = [thr EXCEPT ![u].at = "ref"]
              /\ sv' = [Touch(sv, t) EXCEPT !.wanted[t] = restart]
         ELSE /\ s_ps_onqueue' = IF Upgrade(restart)
                                  THEN [s_ps_onqueue EXCEPT ![t] = 2]
                                  ELSE s_ps_onqueue
              /\ pending_save_queue' = pending_save_queue
              /\ thr' = [thr EXCEPT ![u].at = "unlock"]
              /\ sv' = [Touch(sv, t) EXCEPT !.wanted[t] = @ \/ restart]
      /\ UNCHANGED <<opentv_vars, lock, s_status, s_refcount,
                     pending_save_mutex, tvheadend_running, sil>>

\* service_ref(t) for the queue entry
RequestRef(u) ==
  /\ thr[u].at = "ref"
  /\ s_refcount' = service_ref(s_refcount, thr[u].t)
  /\ sv' = Touch(sv, thr[u].t)
  /\ thr' = [thr EXCEPT ![u].at = "signal"]
  /\ UNCHANGED <<opentv_vars, lock, s_status, s_ps_onqueue, pending_save_queue,
                 pending_save_mutex, tvheadend_running, sil>>

\* pthread_cond_signal(&pending_save_cond) by thread u, now at place a, gone
\* to place b: a saver thread that waits is woken, else nothing happens
cond_signal(u, b) ==
  thr' = [thr EXCEPT ![u].at = b,
                     !["saver"].at = IF @ = "waiting" /\ u # "saver"
                                     THEN "woken" ELSE @]

RequestSignal(u) ==
  /\ thr[u].at = "signal"
  /\ cond_signal(u, "unlock")
  /\ UNCHANGED <<opentv_vars, lock, s_status, s_refcount, s_ps_onqueue,
                 pending_save_queue, pending_save_mutex, tvheadend_running,
                 sil, sv>>

\* pthread_mutex_unlock and return
RequestUnlock(u) ==
  /\ thr[u].at = "unlock"
  /\ pending_save_mutex' = NIL
  /\ thr' = [thr EXCEPT ![u] = Out]
  /\ UNCHANGED <<opentv_vars, lock, s_status, s_refcount, s_ps_onqueue,
                 pending_save_queue, tvheadend_running, sil, sv>>

\* service_saver: pthread_mutex_lock(&pending_save_mutex), at its start,
\* when pthread_cond_wait returns, and at the end of the loop body
SaverLock ==
  /\ thr["saver"].at \in {"start", "woken", "relock"}
  /\ pending_save_mutex = NIL
  /\ pending_save_mutex' = "saver"
  /\ thr' = [thr EXCEPT !["saver"].at = "check"]
  /\ UNCHANGED <<opentv_vars, lock, s_status, s_refcount, s_ps_onqueue,
                 pending_save_queue, tvheadend_running, sil, sv>>

\* while(tvheadend_running): return NULL when it is cleared
SaverCheck ==
  /\ thr["saver"].at = "check"
  /\ thr' = [thr EXCEPT !["saver"].at = IF tvheadend_running THEN "first"
                                        ELSE "exited"]
  /\ UNCHANGED <<opentv_vars, lock, s_status, s_refcount, s_ps_onqueue,
                 pending_save_queue, pending_save_mutex, tvheadend_running,
                 sil, sv>>

\* t = TAILQ_FIRST(&pending_save_queue); pthread_cond_wait when it is NULL
SaverFirst ==
  /\ thr["saver"].at = "first"
  /\ IF pending_save_queue = <<>>
     THEN /\ pending_save_mutex' = NIL
          /\ thr' = [thr EXCEPT !["saver"].at = "waiting"]
     ELSE /\ pending_save_mutex' = pending_save_mutex
          /\ thr' = [thr EXCEPT !["saver"].at = "take",
                                !["saver"].t = Head(pending_save_queue)]
  /\ UNCHANGED <<opentv_vars, lock, s_status, s_refcount, s_ps_onqueue,
                 pending_save_queue, tvheadend_running, sil, sv>>

\* assert(t->s_ps_onqueue != 0); restart = t->s_ps_onqueue == 2;
\* TAILQ_REMOVE; t->s_ps_onqueue = 0
SaverTake ==
  LET t == thr["saver"].t IN
  /\ thr["saver"].at = "take"
  /\ thr' = [thr EXCEPT !["saver"].at = "unlock",
                        !["saver"].restart = s_ps_onqueue[t] = 2]
  /\ pending_save_queue' = Tail(pending_save_queue)
  /\ s_ps_onqueue' = [s_ps_onqueue EXCEPT ![t] = 0]
  /\ sv' = [Touch(sv, t) EXCEPT !.assert = @ \/ s_ps_onqueue[t] = 0,
                                !.deq = [st |-> s_status[t],
                                         asked |-> sv.wanted[t]],
                                !.wanted[t] = FALSE]
  /\ UNCHANGED <<opentv_vars, lock, s_status, s_refcount, pending_save_mutex,
                 tvheadend_running, sil>>

\* pthread_mutex_unlock(&pending_save_mutex)
SaverUnlock ==
  /\ thr["saver"].at = "unlock"
  /\ pending_save_mutex' = NIL
  /\ thr' = [thr EXCEPT !["saver"].at = "glock"]
  /\ UNCHANGED <<opentv_vars, lock, s_status, s_refcount, s_ps_onqueue,
                 pending_save_queue, tvheadend_running, sil, sv>>

\* pthread_mutex_lock(&global_lock)
SaverGlobalLock ==
  /\ thr["saver"].at = "glock"
  /\ GlobalLockFree(lock)
  /\ lock' = "saver"
  /\ thr' = [thr EXCEPT !["saver"].at = "save"]
  /\ UNCHANGED <<opentv_vars, service_vars_but_thr>>

\* variant: the saver saves whatever the status
NotZombieAlways(st) == TRUE

\* t->s_status != SERVICE_ZOMBIE
NotZombie(st) == st # "ZOMBIE"

\* if(t->s_status != SERVICE_ZOMBIE) t->s_config_save(t);
\* if(t->s_status == SERVICE_RUNNING && restart) service_restart(t, 1)
SaverSave ==
  LET t == thr["saver"].t
      l1 == IF NotZombie(s_status[t])
            THEN Append(sv.log, [op |-> "s_config_save", t |-> t,
                                 st |-> s_status[t]])
            ELSE sv.log
      l2 == IF s_status[t] = "RUNNING" /\ thr["saver"].restart
            THEN Append(l1, [op |-> "service_restart", t |-> t,
                             st |-> s_status[t]])
            ELSE l1
  IN  /\ thr["saver"].at = "save"
      /\ sv' = [Touch(sv, t) EXCEPT !.log = l2]
      /\ thr' = [thr EXCEPT !["saver"].at = "unref"]
      /\ UNCHANGED <<opentv_vars, lock, s_status, s_refcount, s_ps_onqueue,
                     pending_save_queue, pending_save_mutex, tvheadend_running,
                     sil>>

\* service_unref(t) for the queue entry
SaverUnref ==
  LET t == thr["saver"].t IN
  /\ thr["saver"].at = "unref"
  /\ s_refcount' = service_unref(s_refcount, t)
  /\ sv' = [Touch(sv, t) EXCEPT !.freed = AfterUnref(@, s_refcount, t)]
  /\ thr' = [thr EXCEPT !["saver"].at = "gunlock"]
  /\ UNCHANGED <<opentv_vars, lock, s_status, s_ps_onqueue, pending_save_queue,
                 pending_save_mutex, tvheadend_running, sil>>

\* pthread_mutex_unlock(&global_lock)
SaverGlobalUnlock ==
  /\ thr["saver"].at = "gunlock"
  /\ lock' = NIL
  /\ thr' = [thr EXCEPT !["saver"].at = "relock"]
  /\ UNCHANGED <<opentv_vars, service_vars_but_thr>>

\* service_destroy(t, delconf) by a thread that holds the global lock for
\* the call; no thread is inside service_request_save for t
service_destroy(t) ==
  /\ GlobalLockFree(lock)
  /\ s_status[t] # "ZOMBIE"
  /\ \A u \in Requesters : thr[u].t # t
  /\ s_status' = [service_stop(s_status, t) EXCEPT ![t] = "ZOMBIE"]
  /\ sil' = sil
  /\ s_refcount' = service_unref(s_refcount, t)
  /\ sv' = [Touch(sv, t) EXCEPT !.freed = AfterUnref(@, s_refcount, t)]
  /\ UNCHANGED <<opentv_vars, lock, s_ps_onqueue, pending_save_queue,
                 pending_save_mutex, tvheadend_running, thr>>

\* a subscription starts service t (service_start, s_start_feed gives r) or
\* the last subscriber leaves it (service_remove_subscriber, service_stop),
\* under the global lock
service_run(t, r) ==
  /\ GlobalLockFree(lock)
  /\ s_status[t] = "IDLE"
  /\ s_status' = service_start(s_status, t, r)
  /\ UNCHANGED <<opentv_vars, lock, s_refcount, s_ps_onqueue, pending_save_queue,
                 pending_save_mutex, tvheadend_running, sil, thr, sv>>

service_remove_subscriber(t) ==
  /\ GlobalLockFree(lock)
  /\ s_status[t] = "RUNNING"
  /\ s_status' = service_stop(s_status, t)
  /\ UNCHANGED <<opentv_vars, lock, s_refcount, s_ps_onqueue, pending_save_queue,
                 pending_save_mutex, tvheadend_running, sil, thr, sv>>

(***************************************************************************)
(* Service manager: instance lists and service_find_instance               *)
(***************************************************************************)

\* si_cmp: weight, then prio
si_cmp(a, b) ==
  LET r == a.si_weight - b.si_weight
  IN  IF r # 0 THEN r ELSE a.si_prio - b.si_prio

\* TAILQ_INSERT_SORTED(sil, si, si_link, si_cmp): before the first entry
\* that si does not compare greater than, else at the tail
InsertSorted(l, si) ==
  LET before == {j \in 1..Len(l) : si_cmp(si, l[j]) <= 0}
      pos == IF before = {} THEN Len(l) + 1
             ELSE CHOOSE x \in before : \A y \in before : x <= y
  IN  SubSeq(l, 1, pos - 1) \o <<si>> \o SubSeq(l, pos, Len(l))

\* the list l without its entry k
Without1(l, k) == SubSeq(l, 1, k - 1) \o SubSeq(l, k + 1, Len(l))

\* service_instance_add(sil, s, instance, prio, weight) on f, which holds
\* the list and the reference counts
service_instance_add(f, s, instance, prio, weight) ==
  LET l == f.sil
      found == {j \in 1..Len(l) : l[j].si_s = s /\ l[j].si_instance = instance}
  IN  IF found = {}
      THEN [f EXCEPT
              !.sil = InsertSorted(l, [si_s |-> s, si_instance |-> instance,
                                       si_weight |-> weight, si_prio |-> prio,
                                       si_error |-> 0, si_mark |-> 0]),
              !.rc = service_ref(@, s)]
      ELSE
        LET pos == CHOOSE x \in found : TRUE
            si == [l[pos] EXCEPT !.si_mark = 0]
        IN  IF si.si_prio = prio /\ si.si_weight = weight
            THEN [f EXCEPT !.sil = [l EXCEPT ![pos] = si]]
            ELSE [f EXCEPT !.sil = InsertSorted(Without1(l, pos),
                                     [si EXCEPT !.si_weight = weight,
                                                !.si_prio = prio])]

\* service_instance_destroy(sil, si) for entry k
service_instance_destroy(f, k) ==
  [f EXCEPT !.sil = Without1(@, k),
            !.rc = service_unref(@, f.sil[k].si_s),
            !.freed = AfterUnref(@, f.rc, f.sil[k].si_s)]

RECURSIVE EnlistAll(_, _)
\* the calls of service_instance_add that s_enlist makes, in order
EnlistAll(f, calls) ==
  IF calls = <<>> THEN f
  ELSE EnlistAll(service_instance_add(f, calls[1][1], calls[1][2], calls[1][3],
                                      calls[1][4]),
                 Tail(calls))

RECURSIVE CleanMarked(_, _)
\* "Clean": the entries still marked are destroyed, from entry k on
CleanMarked(f, k) ==
  IF k > Len(f.sil) THEN f
  ELSE IF f.sil[k].si_mark = 1 THEN CleanMarked(service_instance_destroy(f, k), k)
  ELSE CleanMarked(f, k + 1)

\* the first member of the set of list positions ks, 0 for none
First(ks) == IF ks = {} THEN 0 ELSE CHOOSE x \in ks : \A y \in ks : x <= y

\* the last member of the set of list positions ks, 0 for none
Last(ks) == IF ks = {} THEN 0 ELSE CHOOSE x \in ks : \A y \in ks : x >= y

\* variant: no instance counts as running
AlreadyRunningNever(st, si) == FALSE

\* "Already running?": si->si_s->s_status == SERVICE_RUNNING && !si_error
AlreadyRunning(st, si) == st[si.si_s] = "RUNNING" /\ si.si_error = 0

\* variant: an entry error above the code is lowered to it
RaiseTo(error, code) == code

\* if (*error < code) *error = code
Raise(error, code) == IF error < code THEN code ELSE error

\* service_find_instance once the list is built and cleaned: l the list, st
\* the statuses, r what s_start_feed gives. The result holds the list and
\* the statuses after it, *error, the position returned (0 for NULL), the
\* position service_start was called for (0 for none) and the way taken.
FindChoose(l, st, error, weight, r) ==
  LET run  == First({j \in 1..Len(l) : AlreadyRunning(st, l[j])})
      idle == First({j \in 1..Len(l) : l[j].si_weight <= 0 /\ l[j].si_error = 0})
      bump == Last({j \in 1..Len(l) : weight > l[j].si_weight /\ l[j].si_error = 0})
      si   == IF idle # 0 THEN idle ELSE bump
  IN  IF run # 0
      THEN [sil |-> l, st |-> st, error |-> error, ret |-> run, start |-> 0,
            path |-> "running"]
      ELSE IF si = 0
      THEN [sil |-> l, st |-> st, error |-> Raise(error, SM_CODE_NO_FREE_ADAPTER),
            ret |-> 0, start |-> 0, path |-> "failed"]
      ELSE IF r # 0
      THEN [sil |-> [l EXCEPT ![si].si_error = SM_CODE_TUNING_FAILED], st |-> st,
            error |-> Raise(error, SM_CODE_TUNING_FAILED),
            ret |-> 0, start |-> si, path |-> "tuning"]
      ELSE [sil |-> l, st |-> service_start(st, l[si].si_s, r), error |-> error,
            ret |-> si, start |-> si, path |-> "started"]

\* the key of a list entry
SiKey(si) == <<si.si_s, si.si_instance>>

\* "Build list": every entry marked, before the s_enlist callbacks run
MarkAll ==
  [sil |-> [j \in 1..Len(sil) |-> [sil[j] EXCEPT !.si_mark = 1]],
   rc |-> s_refcount, freed |-> sv.freed]

\* the state after service_find_instance: f the list and the counts after
\* "Clean", c what FindChoose gave for them
FindCommit(f, c, error) ==
  /\ GlobalLockFree(lock)
  /\ sil' = c.sil
  /\ s_refcount' = f.rc
  /\ s_status' = c.st
  /\ sv' = [sv EXCEPT
              !.freed = f.freed,
              !.uaf = @ \/ \E j \in 1..Len(f.sil) : f.sil[j].si_s \in f.freed,
              !.assert = @ \/ (c.start # 0 /\
                                 s_status[c.sil[c.start].si_s] = "RUNNING"),
              \* what the call returned and what it called service_start for:
              \* the returned entry's error and its service's status on
              \* return; the started entry's error and its service's status
              \* before the call, and its error after it
              !.find = [called |-> TRUE,
                        ret |-> IF c.ret = 0 THEN NULL ELSE SiKey(c.sil[c.ret]),
                        ret_error |-> IF c.ret = 0 THEN 0 ELSE c.sil[c.ret].si_error,
                        ret_status |-> IF c.ret = 0 THEN "none"
                                       ELSE c.st[c.sil[c.ret].si_s],
                        err_in |-> error, err_out |-> c.error,
                        started |-> IF c.start = 0 THEN NULL
                                    ELSE SiKey(c.sil[c.start]),
                        cand_error |-> IF c.start = 0 THEN 0
                                       ELSE f.sil[c.start].si_error,
                        cand_status |-> IF c.start = 0 THEN "none"
                                        ELSE s_status[c.sil[c.start].si_s],
                        start_error |-> IF c.start = 0 THEN 0
                                        ELSE c.sil[c.start].si_error,
                        path |-> c.path]]
  /\ UNCHANGED <<opentv_vars, lock, s_ps_onqueue, pending_save_queue,
                 pending_save_mutex, tvheadend_running, thr>>

\* the list built and cleaned, then the choice and the start
FindBuilt(f, error, weight, r) ==
  FindCommit(f, FindChoose(f.sil, s_status, error, weight, r), error)

\* service_find_instance(s, ch, sil, error, weight) under the global lock:
\* calls are the service_instance_add calls the s_enlist callbacks make
service_find_instance(calls, error, weight, r) ==
  FindBuilt(CleanMarked(EnlistAll(MarkAll, calls), 1), error, weight, r)

\* the state after service_instance_list_clear left f
ClearCommit(f) ==
  /\ GlobalLockFree(lock)
  /\ sil # <<>>
  /\ sil' = f.sil
  /\ s_refcount' = f.rc
  /\ sv' = [sv EXCEPT !.freed = f.freed]
  /\ UNCHANGED <<opentv_vars, lock, s_status, s_ps_onqueue, pending_save_queue,
                 pending_save_mutex, tvheadend_running, thr>>

\* service_instance_list_clear(sil) under the global lock
service_instance_list_clear == ClearCommit(CleanMarked(MarkAll, 1))

(***************************************************************************)
(* Specifications                                                          *)
(***************************************************************************)

\* sections delivered in a behaviour of Spec
MaxSections == 4

\* sections delivered in a behaviour of SpecCarousel
MaxCarousel == 6

\* the sections of the guide: <<module, PID, bytes>>
TitleFeed ==
  { <<"A", 48, SecTitleH>>, <<"A", 49, SecTitleW>>, <<"A", 48, SecTitleBlank>> }
SummaryFeed ==
  { <<"A", 64, SecSummaryW>>, <<"A", 64, SecSummaryBlank>>, <<"A", 64, SecShort>>,
    <<"B", 64, SecSummaryW>> }
ChannelFeed == { <<"A", 17, SecBat>>, <<"B", 17, SecBat>> }

\* the sections of the carousel of provider A
CarouselTitleFeed == { <<"A", 48, SecTitleH>>, <<"A", 49, SecTitleW>> }
CarouselSummaryFeed == { <<"A", 64, SecSummaryW>> }

Title(feed, max) ==
  \E f \in feed : /\ Len(hist) < max /\ _opentv_title_callback(f[1], f[2], f[3])
                  /\ UNCHANGED <<lock, pc>>

Summary(feed, max) ==
  \E f \in feed : /\ Len(hist) < max /\ _opentv_summary_callback(f[1], f[2], f[3])
                  /\ UNCHANGED <<lock, pc>>

Channel(feed, max) ==
  \E f \in feed : /\ Len(hist) < max /\ _opentv_channel_callback(f[1], f[2], f[3])
                  /\ UNCHANGED <<lock, pc>>

Timeout == \E m \in Mods : OtaTimeout(m)

Period == \E m \in Mods : OtaPeriod(m)

\* the sections of one pass of each module
Next ==
  \/ Title(TitleFeed, MaxSections)
  \/ Summary(SummaryFeed, MaxSections)
  \/ Channel(ChannelFeed, MaxSections)

Spec == Init /\ [][Next]_vars

\* the carousel of provider A over several passes
NextCarousel ==
  \/ Title(CarouselTitleFeed, MaxCarousel)
  \/ Summary(CarouselSummaryFeed, MaxCarousel)
  \/ Timeout
  \/ Period

SpecCarousel == Init /\ [][NextCarousel]_vars

\* sections delivered in a behaviour of SpecJoin
MaxJoin == 4

\* the channel and summary sections of provider A
JoinChannelFeed == { f \in ChannelFeed : f[1] = "A" }
JoinSummaryFeed == { f \in SummaryFeed : f[1] = "A" }

\* the title and summary sections of provider A and its BAT
NextJoin ==
  \/ Title(TitleFeed, MaxJoin)
  \/ Summary(JoinSummaryFeed, MaxJoin)
  \/ Channel(JoinChannelFeed, MaxJoin)

SpecJoin == Init /\ [][NextJoin]_vars

\* sections delivered in a behaviour of SpecGuide
MaxGuide == 5

\* the guide of day 59000 of provider A
GuideTitleFeed ==
  { <<"A", 48, SecTitleHello>>, <<"A", 49, SecTitleBare>>, <<"A", 48, SecTitle67>> }
GuideSummaryFeed ==
  { <<"A", 64, SecSummaryW>>, <<"A", 64, SecSummarySeries6>>,
    <<"A", 64, SecSummary67>> }

\* the BAT, title and summary sections of that guide
NextGuide ==
  \/ Title(GuideTitleFeed, MaxGuide)
  \/ Summary(GuideSummaryFeed, MaxGuide)
  \/ Channel(JoinChannelFeed, MaxGuide)

SpecGuide == Init /\ [][NextGuide]_vars

\* sections delivered in a behaviour of SpecParse
MaxParse == 3

\* sections with long blocks, unknown and overrunning records, and BATs
\* that give one channel id to two services
ParseTitleFeed ==
  { <<"A", 48, SecTitleHello>>, <<"A", 48, SecTitleHelloBlank>>,
    <<"A", 48, SecTitleLong>> }
ParseSummaryFeed == { <<"A", 64, SecSummaryW>>, <<"A", 64, SecSummaryOver>> }
ParseChannelFeed == { <<"A", 17, SecBat>>, <<"A", 17, SecBatMove>> }

NextParse ==
  \/ Title(ParseTitleFeed, MaxParse)
  \/ Summary(ParseSummaryFeed, MaxParse)
  \/ Channel(ParseChannelFeed, MaxParse)

SpecParse == Init /\ [][NextParse]_vars

\* sections delivered in a behaviour of SpecEnable
MaxEnable == 3

Enable == \E m \in Mods : \E e \in BOOLEAN : _opentv_enable(m, e)

\* the sections of provider A and its BAT while modules are enabled and
\* disabled
NextEnable ==
  \/ Title(CarouselTitleFeed, MaxEnable)
  \/ Summary(CarouselSummaryFeed, MaxEnable)
  \/ Channel(JoinChannelFeed, MaxEnable)
  \/ Enable

SpecEnable == Init /\ [][NextEnable]_vars

\* calls of service_request_save in a behaviour of SpecSaver
MaxSave == 3

RequestSave ==
  \E u \in Requesters : \E t \in Svc : \E restart \in BOOLEAN :
    sv.nreq < MaxSave /\ RequestLock(u, t, restart)

RequestStep ==
  \E u \in Requesters :
    RequestQueue(u) \/ RequestRef(u) \/ RequestSignal(u) \/ RequestUnlock(u)

Saver ==
  \/ SaverLock \/ SaverCheck \/ SaverFirst \/ SaverTake \/ SaverUnlock
  \/ SaverGlobalLock \/ SaverSave \/ SaverUnref \/ SaverGlobalUnlock

Destroy == \E t \in Svc : service_destroy(t)

Running == \E t \in Svc : \E r \in {0, 1} : service_run(t, r)

Stopped == \E t \in Svc : service_remove_subscriber(t)

\* save requests from two threads, the saver thread, and services that
\* are started, stopped and destroyed meanwhile
NextSaver == RequestSave \/ RequestStep \/ Saver \/ Destroy \/ Running \/ Stopped

SpecSaver == Init /\ [][NextSaver]_vars

\* the instances (inputs) a service can run on, with their priority
Instances == ("s1" :> {<<1, 1>>, <<2, 0>>}) @@ ("s2" :> {<<1, 1>>})

\* the weights an input is in use with (0: idle)
Weights == {0, 2}

\* what s_enlist(s, sil) does: one service_instance_add per instance of s,
\* in some order, each with the weight its input is in use with
EnlistCalls(s) ==
  LET n == Cardinality(Instances[s])
  IN  { c \in [1..n -> {<<s, i[1], i[2], w>> : i \in Instances[s], w \in Weights}] :
          \A a, b \in 1..n : a # b => c[a][2] # c[b][2] }

\* the services a call is for: one service, or the enabled services of a
\* channel that maps both
FindCalls ==
  EnlistCalls("s1") \cup EnlistCalls("s2")
    \cup {a \o b : a \in EnlistCalls("s1"), b \in EnlistCalls("s2")}

\* a subscription of weight 1 or 3 looks for an instance; *error holds 0 or
\* a code above SM_CODE_TUNING_FAILED on entry
FindInstance ==
  \E calls \in FindCalls : \E error \in {0, 201, 204} : \E weight \in {1, 3} :
    \E r \in {0, 1} :
      /\ \A k \in 1..Len(calls) : s_status[calls[k][1]] # "ZOMBIE"
      /\ service_find_instance(calls, error, weight, r)

ListClear == service_instance_list_clear

\* subscriptions looking for an instance in one list, services started for
\* other subscriptions, stopped and destroyed
NextFind == FindInstance \/ ListClear \/ Running \/ Stopped \/ Destroy

SpecFind == Init /\ [][NextFind]_vars

\* tvheadend_running is cleared by the main thread. pending_save_mutex is
\* static in service.c and no function of service.c writes the flag, so the
\* write is made without the mutex, at any point of the saver's loop.
ClearRunning ==
  /\ thr["main"].at = "out"
  /\ tvheadend_running
  /\ tvheadend_running' = FALSE
  /\ thr' = [thr EXCEPT !["main"].at = "stopping"]
  /\ UNCHANGED <<opentv_vars, lock, s_status, s_refcount, s_ps_onqueue,
                 pending_save_queue, pending_save_mutex, sil, sv>>

\* service_done: pthread_cond_signal(&pending_save_cond), without the mutex
DoneSignal ==
  /\ thr["main"].at = "stopping"
  /\ cond_signal("main", "joining")
  /\ UNCHANGED <<opentv_vars, lock, s_status, s_refcount, s_ps_onqueue,
                 pending_save_queue, pending_save_mutex, tvheadend_running,
                 sil, sv>>

\* service_done: pthread_join(service_saver_tid, NULL) returns once
\* service_saver has returned
DoneJoin ==
  /\ thr["main"].at = "joining"
  /\ thr["saver"].at = "exited"
  /\ thr' = [thr EXCEPT !["main"].at = "done"]
  /\ UNCHANGED <<opentv_vars, lock, s_status, s_refcount, s_ps_onqueue,
                 pending_save_queue, pending_save_mutex, tvheadend_running,
                 sil, sv>>

service_done == DoneSignal \/ DoneJoin

\* save requests in the interleavings of SpecShutdown
MaxDone == 2

RequestSaveDone ==
  \E u \in Requesters : \E t \in Svc : \E restart \in BOOLEAN :
    sv.nreq < MaxDone /\ RequestLock(u, t, restart)

\* the saver thread, threads asking for saves, and the main thread that
\* shuts down
NextShutdown ==
  RequestSaveDone \/ RequestStep \/ Saver \/ ClearRunning \/ service_done

\* every thread that can take a step goes on: the saver, a thread inside
\* service_request_save, the main thread inside service_done. A mutex that
\* is free is given to a thread that waits for it.
SpecShutdown ==
  /\ Init /\ [][NextShutdown]_vars
  /\ WF_vars(Saver) /\ WF_vars(RequestStep) /\ WF_vars(service_done)

\* save requests, without restart, in the interleavings of SpecRef
MaxRef == 2

RequestSaveRef ==
  \E u \in Requesters : \E t \in Svc :
    sv.nreq < MaxRef /\ RequestLock(u, t, FALSE)

\* a subscription of weight 1 looks for an instance among idle ones, and
\* the start succeeds
FindIdle ==
  \E calls \in {c \in FindCalls : \A k \in 1..Len(c) : c[k][4] = 0} :
    /\ \A k \in 1..Len(calls) : s_status[calls[k][1]] # "ZOMBIE"
    /\ service_find_instance(calls, 0, 1, 0)

\* the saver thread and the instance list of a subscription holding
\* references to services that are destroyed meanwhile
NextRef ==
  RequestSaveRef \/ RequestStep \/ Saver \/ Destroy \/ FindIdle \/ ListClear

SpecRef == Init /\ [][NextRef]_vars

\* sections delivered in a behaviour of SpecShort
MaxShort == 4

\* title sections for provider A: short title records for event 0x1236, and
\* the same event with a title
SecTitle36 == EvSection(66, 59000, <<EvBlock(4662, <<TitleRec(1, 1, 32, TextH)>>)>>)
ShortTitleFeed ==
  { <<"A", 48, SecTitleShort5>>, <<"A", 48, SecTitleShort6>>, <<"A", 48, SecTitle36>> }

\* the BAT of provider A, then title sections with short title records
NextShort ==
  \/ Title(ShortTitleFeed, MaxShort)
  \/ Channel(JoinChannelFeed, MaxShort)

SpecShort == Init /\ [][NextShort]_vars

\* records read from the settings files in a behaviour of SpecLoad
MaxLoad == 4

\* the fields _opentv_prov_load requires
ProvFields == {"name", "dict", "channel", "title", "summary", "nid", "tsid", "sid"}

\* the record of provider q in the provider file
Conf(q) == [f \in ProvFields |-> _opentv_provs[q][f]]

\* a second declaration of provider A with other values
ConfAlt ==
  [name |-> "Other", dict |-> "d1", nid |-> 3, tsid |-> 9, sid |-> 900,
   channel |-> <<18, 0>>, title |-> <<50>>, summary |-> <<65>>]

\* record m without field f
Without(m, f) == [g \in DOMAIN m \ {f} |-> m[g]]

\* the dictionary file: d2 has a code list no tree can be built from
DictFile == { <<"d1", "codes">>, <<"d2", "bad">> }

\* the provider file: complete records, records lacking one field, and
\* records naming the failed dictionary d2 or the absent dictionary d9
ProvFile ==
  { <<"A", Conf("A")>>, <<"A", ConfAlt>>, <<"B", Conf("B")>> }
    \cup { <<"B", Without(Conf("B"), f)>> : f \in ProvFields }
    \cup { <<"B", [Conf("B") EXCEPT !.dict = d]>> : d \in {"d2", "d9"} }

LoadDict ==
  \E f \in DictFile : Len(boot.log) < MaxLoad /\ opentv_init_dict(f[1], f[2])

LoadProv ==
  \E f \in ProvFile : Len(boot.log) < MaxLoad /\ opentv_init_prov(f[1], f[2])

MakeModules == opentv_init_modules

\* opentv_init starts with empty registries; modules are calloc'ed, so
\* none is enabled
InitLoad ==
  /\ ServiceInit
  /\ enabled = [m \in Mods |-> FALSE]
  /\ boot = [phase |-> "dict", dicts |-> {}, provs |-> {}, modules |-> {},
             log |-> <<>>]
  /\ lock = NIL
  /\ pc = [t \in Threads |-> Idle]
  /\ status = [m \in Mods |-> <<>>]
  /\ ota = [m \in Mods |-> "NONE"]
  /\ events = {}
  /\ channels = {}
  /\ episodes = {}
  /\ seasons = {}
  /\ broadcasts = {}
  /\ owner = {}
  /\ sta_of = [m \in Mods |-> [p \in SubscribedPids(m) |-> 0]]
  /\ hist = <<>>
  /\ ncomplete = [m \in Mods |-> 0]
  /\ last = NoLast

NextLoad == LoadDict \/ LoadProv \/ MakeModules

SpecLoad == InitLoad /\ [][NextLoad]_vars

\* sections delivered in a behaviour of SpecLock
MaxLock == 3

\* sections of both providers on their PIDs, with their role
LockFeed ==
  { <<"channel", "A", 17, SecBat>>, <<"title", "A", 48, SecTitleH>>,
    <<"summary", "A", 64, SecSummaryW>>, <<"summary", "B", 64, SecSummaryW>> }

\* the threads inside a callback or about to run it
Inside == {t \in Threads : pc[t].at # "idle"}

Enter ==
  \E t \in Threads : \E f \in LockFeed :
    /\ Len(hist) + Cardinality({u \in Threads : pc[u].at = "entered"}) < MaxLock
    /\ LockEnter(t, f[1], f[2], f[3], f[4])

Run == \E t \in Threads : LockRun(t)

Leave == \E t \in Threads : LockLeave(t)

\* two demux threads deliver sections under the global lock
NextLock == Enter \/ Run \/ Leave

SpecLock == Init /\ [][NextLock]_vars

(***************************************************************************)
(* Properties                                                              *)
(***************************************************************************)

\* the last step was a section callback
IsSection == last.op \in {"title", "summary", "channel"}

\* the last section arrived on a PID whose entry was STARTED with a
\* fingerprint other than the section's first 20 bytes
LastMismatch ==
  /\ IsSection /\ last.live /\ ~last.begun
  /\ last.pre.status = OPENTV_STA_STARTED
  /\ last.pre.start # Fingerprint(last.buf)

\* C1: epggrab_ota_complete is called only in a state where every PID the
\* module subscribes to is COMPLETE; a section on a STARTED PID that does not
\* match the fingerprint does not lead to the call.
C1_CompleteOnlyWhenAllComplete ==
  /\ last.completed =>
       \A p \in SubscribedPids(last.mod) :
         PidSta(last.mod, p).status = OPENTV_STA_COMPLETE
  /\ LastMismatch => ~last.completed

\* C1 witness: a non-matching section arrived on a STARTED PID and
\* epggrab_ota_complete was not called.
C1_Witness == LastMismatch /\ ~last.completed /\ ncomplete[last.mod] = 0

\* the delivered sections h are the scenario, or a beginning of it: a pass
\* of provider A that begins with the first section, one section on each of
\* the PIDs 0x30, 0x31 and 0x40, then again one on each with the same first
\* 20 bytes
ScenarioUpTo(h) ==
  /\ Len(h) <= 6
  /\ \A i \in 1..Len(h) : h[i].mod = "A" /\ h[i].live /\ (h[i].begun <=> i = 1)
  /\ \A i, j \in 1..Len(h) : (i < j /\ j <= 3) => h[i].pid # h[j].pid
  /\ \A i, j \in 1..Len(h) : (3 < i /\ i < j) => h[i].pid # h[j].pid
  /\ \A j \in 1..Len(h) : j > 3 =>
       \E i \in 1..3 : h[i].pid = h[j].pid
                       /\ Fingerprint(h[i].buf) = Fingerprint(h[j].buf)

\* C2: after one section on each of the PIDs 0x30, 0x31, 0x40 and a second,
\* matching section on each, epggrab_ota_complete has been called exactly
\* once, on the third repeated section and not earlier.
C2_ScenarioCompletesOnce ==
  ScenarioUpTo(hist) =>
    ncomplete["A"] = (IF Len(hist) = 6 THEN 1 ELSE 0)

\* C3: within a pass the status of a PID changes only INIT -> STARTED
\* (storing the section's first 20 bytes) and STARTED -> COMPLETE (on a
\* matching section); a non-matching section leaves status and fingerprint
\* as they are, and COMPLETE does not change.
C3_StatusTransitions ==
  (IsSection /\ last.live /\ ~last.begun) =>
    LET pre  == last.pre
        post == PidSta(last.mod, last.pid)
        fp   == Fingerprint(last.buf)
    IN  \/ post.status = pre.status /\ post.start = pre.start
        \/ /\ pre.status = OPENTV_STA_INIT
           /\ post.status = OPENTV_STA_STARTED /\ post.start = fp
        \/ /\ pre.status = OPENTV_STA_STARTED /\ pre.start = fp
           /\ post.status = OPENTV_STA_COMPLETE /\ post.start = pre.start

\* C4: every section of at least 20 bytes that arrives while the pass is not
\* complete is handed to the decoder of its role, whatever the status of its
\* PID.
C4_LiveSectionsDecoded == (IsSection /\ last.live) => last.ret

\* C4 witness: a non-matching section on a STARTED PID was decoded and
\* worked on a partial event.
C4_Witness == LastMismatch /\ last.ret /\ last.keys # {}

\* C5: every partial event in the store between callbacks has exactly one of
\* the bits TITLE, SUMMARY; an event block in a section of role R leaves its
\* event with bit R or removes it; a removed event had both bits.
C5_OneStatusBit ==
  /\ \A e \in events : e.status \in {OPENTV_TITLE, OPENTV_SUMMARY}
  /\ \A ev \in last.removed : ev.status = BitOr(OPENTV_TITLE, OPENTV_SUMMARY)
  /\ \A k \in last.keys :
       \/ k \in EventKeys(last.removed)
       \/ \E e \in events :
            /\ <<e.cid, e.eid>> = k
            /\ e.status = (IF last.op = "title" THEN OPENTV_TITLE ELSE OPENTV_SUMMARY)

\* C5 witness: one callback completed and removed an event and left another
\* one pending with the TITLE bit.
C5_Witness ==
  /\ last.removed # {}
  /\ \E e \in events : e.status = OPENTV_TITLE /\ <<e.cid, e.eid>> \in EventKeys(last.before)

\* what the decoder of a role makes of section f = <<module, PID, bytes>>
\* in store st, as one callback (the save flag is a local of the call)
Process(role, f, st) ==
  Decode(role, f[1], [st EXCEPT !.save = FALSE], f[3], Len(f[3]))

\* the partial events a section yields when the store holds none
Fresh(role, f) == Process(role, f, [Store EXCEPT !.events = {}])

\* the channel id of an event section is the EPG channel of a named channel
KnownNamed(f) ==
  LET cid == BitOr(Shl(B(f[3], 0), 8), B(f[3], 1))
      ec  == epggrab_module_channel_find(channels, ChId(f[1], cid))
  IN  /\ ec # {}
      /\ \A c \in ec : c.channel # NIL /\ ch_name[c.channel] # ""

\* title section t and summary section u of one module are long enough to be
\* decoded and carry a common (channel_id, event_id) of a known, named channel
Matching(t, u) ==
  /\ t[1] = u[1] /\ Len(t[3]) >= 20 /\ Len(u[3]) >= 20
  /\ KnownNamed(t) /\ KnownNamed(u)
  /\ Fresh("title", t).keys \cap Fresh("summary", u).keys # {}

\* the same EPG store calls, EPG store and partial-event store
SameOutcome(x, y) ==
  /\ x.calls = y.calls
  /\ x.episodes = y.episodes /\ x.seasons = y.seasons
  /\ x.broadcasts = y.broadcasts
  /\ x.events = y.events

TitleThenSummary(t, u) == Process("summary", u, Process("title", t, Store))

SummaryThenTitle(t, u) == Process("title", t, Process("summary", u, Store))

FreshJoin(t, u) ==
  LET ft == Fresh("title", t)
      fu == Fresh("summary", u)
  IN  /\ (ft.keys \cup fu.keys) \cap EventKeys(events) = {}
      /\ Cardinality(ft.keys) = ft.blocks /\ Cardinality(fu.keys) = fu.blocks
      /\ \A e \in ft.events : e.summary = NULL /\ e.desc = NULL /\ e.series = 0
      /\ \A e \in fu.events :
           e.title = NULL /\ e.start = 0 /\ e.stop = 0 /\ e.cat = 0

C7_ProvidersIndependent ==
  (IsSection /\ last.ret) => last.touched \subseteq {last.mod}

\* C8 as stated: a partial event leaves the store if and only if it is
\* emitted (there is no step that destroys a module).
C8_RemovedIffEmitted == IsSection => last.gone = last.emitted

\* C8 (amended): a partial event leaves the store if and only if a section
\* callback sets its second status bit; it is then emitted when epg_hash of
\* its texts gives a URI and dropped without emission when it gives none.
C8_RemovedIffJoined ==
  IsSection =>
    /\ last.gone = EventKeys(last.removed)
    /\ last.emitted \subseteq EventKeys(last.removed)
    /\ \A ev \in last.removed :
         /\ ev.status = BitOr(OPENTV_TITLE, OPENTV_SUMMARY)
         /\ \E b \in last.before :
              /\ _ev_cmp(b, ev) = 0
              /\ b.status \in {OPENTV_TITLE, OPENTV_SUMMARY}
              /\ b.status # (IF last.op = "title" THEN OPENTV_TITLE ELSE OPENTV_SUMMARY)
         /\ <<ev.cid, ev.eid>> \in last.emitted
              <=> epg_hash(ev.title, ev.summary, ev.desc) # NULL

\* C8 witness: an event with both bits set and no text left the store
\* without being emitted.
C8_Witness ==
  \E ev \in last.removed :
    /\ epg_hash(ev.title, ev.summary, ev.desc) = NULL
    /\ <<ev.cid, ev.eid>> \in last.gone \ last.emitted

\* the first record of the first event block of the section is a title,
\* summary or description record whose text decodes to nothing printable
TextRecordFails(m, buf) ==
  LET tag == B(buf, 11)
      ev  == _opentv_parse_event_record(_opentv_provs[m], opentv_event(0, 0),
                                        buf, 11, Len(buf) - 11, 0).ev
  IN  \/ tag = 181 /\ ev.title = NULL
      \/ tag = 185 /\ ev.summary = NULL
      \/ tag = 187 /\ ev.desc = NULL

\* the key of the first event block of the section
FirstKey(buf) ==
  << BitOr(Shl(B(buf, 0), 8), B(buf, 1)), BitOr(Shl(B(buf, 7), 8), B(buf, 8)) >>

\* C9: a section whose text record decodes to nothing printable does not
\* finalise its event: the event is neither emitted nor removed by that
\* section.
C9_FailedDecodeKeepsPending ==
  ( /\ last.op \in {"title", "summary"} /\ last.ret
    /\ FirstKey(last.buf) \in last.keys
    /\ TextRecordFails(last.mod, last.buf) ) =>
      /\ FirstKey(last.buf) \notin EventKeys(last.removed)
      /\ FirstKey(last.buf) \notin last.emitted

\* the record of the partial event of b after the last callback: the one
\* handed on when the callback completed it, else the one in the store
After(b) ==
  IF <<b.cid, b.eid>> \in EventKeys(last.removed)
  THEN {a \in last.removed : _ev_cmp(a, b) = 0}
  ELSE {a \in events : _ev_cmp(a, b) = 0}

\* C10: a title, summary or description that is set in a partial event is
\* not changed by a later record for the same (channel_id, event_id), in
\* whichever section role the record arrives.
C10_FirstWriterWins ==
  IsSection =>
    \A b \in last.before : \A a \in After(b) :
      /\ b.title # NULL => a.title = b.title
      /\ b.summary # NULL => a.summary = b.summary
      /\ b.desc # NULL => a.desc = b.desc

\* C10 witness: the last section carried, for an event whose title was set,
\* a title record that decodes to another text, and the title is the old one.
C10_Witness ==
  /\ last.op = "title" /\ last.ret
  /\ \E b \in last.before : \E a \in After(b) :
       \E n \in Fresh("title", <<last.mod, last.pid, last.buf>>).events :
         /\ _ev_cmp(n, b) = 0
         /\ b.title # NULL /\ n.title # NULL /\ n.title # b.title
         /\ a.title = b.title

\* no two partial events of the store have the same (channel_id, event_id)
UniqueKeys(evs) == \A a \in evs : \A b \in evs : _ev_cmp(a, b) = 0 => a = b

\* the last callback decoded, as a title section, the section the callback
\* before it delivered for the same module
TitleTwice ==
  /\ last.op = "title" /\ last.ret /\ last.keys # {}
  /\ Len(hist) >= 2
  /\ hist[Len(hist) - 1].mod = last.mod
  /\ hist[Len(hist) - 1].buf = last.buf

PendingTitle ==
  \A k \in last.keys : \E b \in last.before :
    <<b.cid, b.eid>> = k /\ b.status = OPENTV_TITLE

ShortDelivered == IsSection /\ Len(last.buf) < 20

\* C12: a section shorter than 20 bytes is dropped with no side effect: no
\* carousel registration, begin or complete, no change of a carousel status
\* or fingerprint, of the partial-event store or of the EPG store, and no
\* EPG store call.
C12_ShortSectionDropped ==
  [][ ShortDelivered' =>
        /\ UNCHANGED <<status, ota, ncomplete, events, channels, episodes,
                       seasons, broadcasts>>
        /\ ~last'.ret /\ ~last'.begun /\ ~last'.completed
        /\ last'.calls = <<>> ]_vars

\* C12 witness: a section of 19 bytes was delivered to a module that had
\* sections decoded before.
C12_Witness ==
  /\ ShortDelivered /\ Len(last.buf) = 19
  /\ \E i \in 1..Len(hist) : hist[i].mod = last.mod /\ hist[i].live

\* C13: an EPG channel exists only bound to a broadcast channel that the
\* (TSID, service_id) lookup found and that has a non-empty name; an unknown
\* service or a service without channel creates no EPG channel.
C13_BindingNeedsNamedChannel ==
  \A c \in channels :
    /\ c.channel # NIL
    /\ \E t \in Services : t.ch = c.channel
    /\ ch_name[c.channel] # ""

\* the last callback was a title or summary callback for a section whose
\* channel id has no EPG channel, an unbound one, or one of an unnamed channel
Unresolved ==
  /\ last.op \in {"title", "summary"}
  /\ ~KnownNamed(<<last.mod, last.pid, last.buf>>)

\* C14: a title or summary section whose channel id has no EPG channel, whose
\* EPG channel is bound to no broadcast channel, or whose channel has an empty
\* name makes no EPG store call and leaves episodes, seasons and broadcasts
\* as they were.
C14_UnresolvedChannelNoEpg ==
  [][Unresolved' =>
       /\ UNCHANGED <<episodes, seasons, broadcasts>>
       /\ last'.calls = <<>> /\ last'.emitted = {}]_vars

\* C14 witness: a summary section of the unnamed channel was handed to the
\* decoder after the BAT bound its channel id and a title section of the same
\* channel id had been delivered.
C14_Witness ==
  /\ Unresolved /\ last.op = "summary" /\ last.ret
  /\ \E c \in channels :
       /\ c.id = ChId(last.mod, FirstKey(last.buf)[1])
       /\ c.channel # NIL /\ ch_name[c.channel] = ""
  /\ \E i \in 1..Len(hist) :
       /\ hist[i].mod = last.mod
       /\ hist[i].pid \in SeqRange(_opentv_provs[last.mod].title)
       /\ Len(hist[i].buf) >= 20
       /\ FirstKey(hist[i].buf) = FirstKey(last.buf)
       /\ \E j \in 1..(i - 1) :
            hist[j].pid \in SeqRange(_opentv_provs[hist[j].mod].channel)

\* no BAT announced the channel id of the section of the last title or
\* summary callback: the module has no EPG channel for it
Unannounced ==
  /\ last.op \in {"title", "summary"} /\ last.ret
  /\ epggrab_module_channel_find(channels,
                                  ChId(last.mod, FirstKey(last.buf)[1])) = {}

\* the delivery before the last one was a decoded title section of the same
\* module with the same first (channel_id, event_id) as the last section
AfterTitleOfSameKey ==
  /\ Len(hist) >= 2
  /\ LET h == hist[Len(hist) - 1]
     IN  /\ h.mod = last.mod /\ h.live /\ Len(h.buf) >= 20
         /\ h.pid \in SeqRange(_opentv_provs[h.mod].title)
         /\ FirstKey(h.buf) = FirstKey(last.buf)

FindByTimeCalls ==
  {i \in 1..Len(last.calls) : last.calls[i][1] = "epg_broadcast_find_by_time"}

\* C16: every broadcast the emitter asks epg_broadcast_find_by_time for has
\* stop >= start, and so has every broadcast in the EPG store, also when the
\* event completed without a title record (start = stop = 0).
C16_StopNotBeforeStart ==
  /\ \A i \in FindByTimeCalls : last.calls[i][4] >= last.calls[i][3]
  /\ \A b \in broadcasts : b.key.stop >= b.key.start

\* C16 witness: the store holds a broadcast of an event whose title record
\* set a stop after its start, and the last callback emitted an event on
\* which no title record had been applied (start and stop still 0).
C16_Witness ==
  /\ \E b \in broadcasts : b.key.start > 0 /\ b.key.stop > b.key.start
  /\ \E i \in FindByTimeCalls :
       /\ last.calls[i][3] = 0 /\ last.calls[i][4] = 0
       /\ \E ev \in last.removed :
            ev.eid = last.calls[i][5] /\ ev.title = NULL /\ ev.cat = 0

\* midnight of day 59000 in seconds since 1970
Day59000 == (59000 - 40587) * 86400

\* the broadcasts emitted for event 0x1234 with the times of its title
\* record (SecTitleHello: day 59000, start field 0x0200, duration field
\* 0x0080; no other section of the guide has a title record for the event
\* on a named channel)
HelloBroadcasts == {b \in broadcasts : b.key.eid = 4660 /\ b.key.start # 0}

\* C17: the broadcast of the title record with start field 0x0200 and
\* duration field 0x0080 on day 59000 starts at (59000-40587)*86400 + 512
\* and stops 128 later.
C17_FieldsAreSeconds ==
  \A b \in HelloBroadcasts :
    /\ b.key.start = Day59000 + 512
    /\ b.key.stop = b.key.start + 128

\* C17 (amended): the fields count units of two seconds: the broadcast
\* starts at (59000-40587)*86400 + 1024 and stops 256 later.
C17_FieldsAreTwoSeconds ==
  \A b \in HelloBroadcasts :
    /\ b.key.start = Day59000 + 1024
    /\ b.key.stop = b.key.start + 256

\* C17 witness: the last callback emitted event 0x1234 with the times of
\* its title record, and the broadcast is in the store.
C17_Witness ==
  /\ <<66, 4660>> \in last.emitted
  /\ \E ev \in last.removed : ev.eid = 4660 /\ ev.title # NULL /\ ev.start # 0
  /\ HelloBroadcasts # {}

\* the episodes (by URI) the call list gives a season to
SetSeasonCalls(calls) ==
  {i \in 1..Len(calls) : calls[i][1] = "epg_episode_set_season"}

\* C18: a step never changes the season of an episode that has one, and
\* epg_episode_set_season is called only with the season of a completed
\* event with non-zero series link, for an episode that had no season before
\* the callback.
C18_SeasonSetOnce ==
  [][/\ \A e \in episodes : e.season # NULL =>
          \E f \in episodes' : f.uri = e.uri /\ f.season = e.season
     /\ \A i \in SetSeasonCalls(last'.calls) :
          /\ \A e \in episodes : e.uri = last'.calls[i][2] => e.season = NULL
          /\ \E ev \in last'.removed :
               /\ ev.series # 0
               /\ last'.calls[i][3] = SeasonUri(last'.mod, ev.cid, ev.series)]_vars

\* C18 witness: the last callback emitted an event with a series link whose
\* season is not the one its episode has, and made no set_season call.
C18_Witness ==
  /\ SetSeasonCalls(last.calls) = {}
  /\ \E ev \in last.removed :
       /\ <<ev.cid, ev.eid>> \in last.emitted /\ ev.series # 0
       /\ \E e \in episodes :
            /\ e.uri = epg_hash(ev.title, ev.summary, ev.desc)
            /\ e.season # NULL
            /\ e.season # SeasonUri(last.mod, ev.cid, ev.series)

\* the epg_updated calls of the last callback
UpdatedCalls == {i \in 1..Len(last.calls) : last.calls[i][1] = "epg_updated"}

\* C19: a title or summary callback calls epg_updated at most once, as its
\* last EPG call, and exactly when a find or setter of the section reported
\* a change.
C19_UpdatedOncePerSection ==
  last.op \in {"title", "summary"} =>
    /\ Cardinality(UpdatedCalls) <= 1
    /\ UpdatedCalls \subseteq {Len(last.calls)}
    /\ (UpdatedCalls # {}) <=> last.reported

\* C19 witness: the last callback emitted two events with changes to the
\* EPG store and called epg_updated once, after the calls of both.
C19_Witness ==
  /\ last.op \in {"title", "summary"}
  /\ Cardinality(last.emitted) = 2 /\ last.reported
  /\ UpdatedCalls = {Len(last.calls)}
  /\ Cardinality({i \in 1..Len(last.calls) :
                    last.calls[i][1] = "epg_broadcast_set_episode"}) = 2

\* C20: the callback in which begin() starts a pass leaves every status
\* entry of the module other than the one it works on at INIT, sets that
\* one from INIT to STARTED with the fingerprint of the section, and hands
\* the section to the decoder, as for the first section of its PID.
C20_NewPassResetsStatuses ==
  (IsSection /\ last.begun) =>
    LET list == status[last.mod]
        k    == Len(list) - sta_of[last.mod][last.pid] + 1
    IN  /\ last.ret /\ ~last.completed
        /\ sta_of[last.mod][last.pid] # 0
        /\ list[k].status = OPENTV_STA_STARTED
        /\ list[k].start = Fingerprint(last.buf)
        /\ \A j \in 1..Len(list) : j # k => list[j].status = OPENTV_STA_INIT

\* C20 witness: a pass began on a module whose earlier pass had left status
\* entries behind, among them one for the PID of the triggering section.
C20_Witness ==
  /\ IsSection /\ last.begun
  /\ Len(status[last.mod]) > 2
  /\ \E i \in 1..(Len(hist) - 1) :
       /\ hist[i].mod = last.mod /\ hist[i].pid = last.pid
       /\ hist[i].live /\ Len(hist[i].buf) >= 20

\* the 12-bit payload length of the event block at offset off (0-based)
PayloadLength(buf, off) ==
  BitOr(Shl(BitAnd(B(buf, off + 2), 15), 8), B(buf, off + 3))

\* C26: the first event block of a decoded title or summary section is read
\* with payload length ((buf[2] & 0x0F) << 8) | buf[3] and consumes that
\* length + 4 bytes.
C26_PayloadLengthTwelveBits ==
  (last.op \in {"title", "summary"} /\ last.ret) =>
    /\ EventSlen(last.buf, 7) = PayloadLength(last.buf, 7)
    /\ _opentv_parse_event(_opentv_provs[last.mod], {}, last.buf, 7,
                           Len(last.buf) - 7, FirstKey(last.buf)[1], 0).n
         = PayloadLength(last.buf, 7) + 4

\* the <<tsid, service_id, channel_id>> mappings of a BAT section laid out as
\* BatSection lays it out (one transport stream, one 0xb1 descriptor)
BatMaps(buf) ==
  LET tsid == BitOr(Shl(B(buf, 9), 8), B(buf, 10))
      n    == (B(buf, 16) - 2) \div 9
  IN  { << tsid,
           BitOr(Shl(B(buf, 19 + 9 * k), 8), B(buf, 20 + 9 * k)),
           BitOr(Shl(B(buf, 22 + 9 * k), 8), B(buf, 23 + 9 * k)) >> :
        k \in 0..(n - 1) }

\* C29: after a decoded BAT section, the EPG channel of every mapping whose
\* service has a channel is bound to that channel, whether the EPG channel
\* was created by the section or existed before.
C29_BatBindsDiscoveredChannel ==
  (last.op = "channel" /\ last.ret) =>
    \A mp \in BatMaps(last.buf) :
      LET ch == _opentv_find_channel(mp[1], mp[2])
      IN  ch # NIL =>
            \E c \in channels : c.id = ChId(last.mod, mp[3]) /\ c.channel = ch

RECURSIVE RecordStarts(_, _, _)
\* the offsets of the TLV records from off up to end, each record taking its
\* length byte + 2
RecordStarts(buf, off, end) ==
  IF off < end /\ off + 1 < Len(buf)
  THEN {off} \cup RecordStarts(buf, off + B(buf, off + 1) + 2, end)
  ELSE {}

\* the records of the first event block of the last section
LastRecords == RecordStarts(last.buf, 11, 11 + EventSlen(last.buf, 7))

\* the record at off does not fit in the rest of the last section
Overruns(off) == B(last.buf, off + 1) + 2 > Len(last.buf) - off

\* C30: every record of the first event block of a title or summary section
\* moves the cursor by its length byte + 2, whatever its tag, and a record
\* that overruns the section changes no field of the partial event.
C30_CursorAdvancesByLenPlus2 ==
  (last.op \in {"title", "summary"} /\ Len(last.buf) >= 20) =>
    \A off \in LastRecords :
      \A ev \in events \cup {opentv_event(0, 0)} :
        LET r == _opentv_parse_event_record(_opentv_provs[last.mod], ev, last.buf,
                                            off, Len(last.buf) - off, 0)
        IN  /\ r.n = B(last.buf, off + 1) + 2
            /\ Overruns(off) => r.ev = ev

\* C30 witness: a decoded section whose first block holds a record with an
\* unknown tag, a description record and a summary record that overruns the
\* section; its event has the description and no summary.
C30_Witness ==
  /\ last.op = "summary" /\ last.ret
  /\ \E off \in LastRecords : B(last.buf, off) = 1 /\ ~Overruns(off)
  /\ \E off \in LastRecords : B(last.buf, off) = 187 /\ ~Overruns(off)
  /\ \E off \in LastRecords : B(last.buf, off) = 185 /\ Overruns(off)
  /\ \E e \in events :
       /\ <<e.cid, e.eid>> = FirstKey(last.buf)
       /\ e.desc # NULL /\ e.summary = NULL

\* the sections delivered so far on PID p of module m that passed the
\* length and completion tests of _opentv_table_callback
LiveOn(m, p) ==
  {i \in 1..Len(hist) : hist[i].mod = m /\ hist[i].pid = p /\ hist[i].live}

\* C28: a module's status list holds one entry for each PID a section
\* arrived on and no other: each entry carries the PID it was made for, no
\* two entries carry the same PID, and a PID with sections has its entry.
C28_OneStatusPerPid ==
  \A m \in Mods :
    /\ \A k \in 1..Len(status[m]) :
         /\ status[m][k].pid \in SubscribedPids(m)
         /\ LiveOn(m, status[m][k].pid) # {}
         /\ \A j \in 1..Len(status[m]) :
              status[m][j].pid = status[m][k].pid => j = k
    /\ \A p \in SubscribedPids(m) :
         LiveOn(m, p) # {} => \E k \in 1..Len(status[m]) : status[m][k].pid = p

\* the last step delivered a section of at least 20 bytes to a module whose
\* subscription was complete
CompleteDelivered ==
  /\ IsSection /\ Len(last.buf) >= 20 /\ ~last.live

\* C27: a section callback on a module whose subscription is complete
\* leaves the status list, the subscription, the partial events and the EPG
\* store as they were, and calls neither begin() nor complete().
C27_CompleteIgnoresSections ==
  [][CompleteDelivered' =>
       /\ UNCHANGED <<status, ota, ncomplete, events, channels, episodes,
                      seasons, broadcasts>>
       /\ ~last'.ret /\ ~last'.begun /\ ~last'.completed
       /\ last'.calls = <<>>]_vars

\* C27 witness: a section was ignored while the subscription was complete,
\* and after the period the last section began a new pass.
C27_Witness ==
  /\ IsSection /\ last.begun /\ last.ret
  /\ \E i \in 1..(Len(hist) - 1) :
       /\ hist[i].mod = last.mod /\ Len(hist[i].buf) >= 20 /\ ~hist[i].live

\* the first 20 bytes of a section
Leading(buf) == SubSeq(buf, 1, 20)

\* sections of at least 20 bytes for module m and PID pid that start with
\* the 20 bytes of buf: those of the feeds, and the 20 bytes alone
Siblings(m, pid, buf) ==
  { g[3] : g \in { f \in ParseTitleFeed \cup ParseSummaryFeed \cup ParseChannelFeed :
                     /\ f[1] = m /\ f[2] = pid /\ Len(f[3]) >= 20
                     /\ Leading(f[3]) = Leading(buf) } }
  \cup {Leading(buf)}

\* the last step delivered a section of at least 20 bytes
LongDelivered == IsSection /\ Len(last.buf) >= 20

DisabledDelivered == IsSection /\ ~enabled[last.mod]

\* C21: a section callback of a disabled module does nothing: it registers
\* no carousel subscription, changes no carousel status, and leaves the
\* partial events and the EPG store as they were.
C21_DisabledCallbackDoesNothing ==
  [][DisabledDelivered' =>
       /\ UNCHANGED <<status, ota, events, channels, episodes, seasons,
                      broadcasts>>
       /\ ~last'.ret /\ ~last'.begun /\ last'.calls = <<>>]_vars

\* C22: a thread inside a section callback holds the global lock, so no two
\* threads are inside callbacks at once, and the carousel statuses, the
\* partial events and the EPG store change only in the step of the thread
\* that holds the lock.
C22_CallbacksExclusive ==
  [][/\ \A t \in Inside' : lock' = t
     /\ <<status, ota, events, channels, episodes, seasons, broadcasts>>'
          # <<status, ota, events, channels, episodes, seasons, broadcasts>>
        => \E t \in Threads :
             lock = t /\ lock' = t /\ pc[t].at = "entered" /\ pc'[t].at = "done"]_vars

\* C22 witness: a thread holds the lock after its callback changed the
\* partial events, the other thread has delivered a section to the other
\* module before, and is outside.
C22_Witness ==
  \E t \in Threads :
    /\ lock = t /\ pc[t].at = "done" /\ Inside = {t}
    /\ last.ret /\ events # last.before
    /\ \E i \in 1..(Len(hist) - 1) : hist[i].mod # last.mod /\ hist[i].live

\* the record appended to the load log by this step, if any
Loaded == IF Len(boot'.log) = Len(boot.log) + 1
          THEN {boot'.log[Len(boot'.log)]} ELSE {}

\* C24: loading a provider record whose id is already registered returns 0
\* or an error and leaves the provider registry as it was, so the first
\* declaration's fields stay; the provider file is still being read after it.
C24_DuplicateProviderIgnored ==
  [][\A e \in Loaded :
       (e.kind = "prov" /\ \E q \in boot.provs : q.id = e.id)
         => /\ e.r <= 0
            /\ boot'.provs = boot.provs
            /\ boot'.phase = "prov"]_vars

\* C24 witness: provider A is loaded, a second declaration of A with other
\* values returns 0, provider B is loaded after it, and the modules are
\* made from the first declaration of A and from B.
C24_Witness ==
  /\ boot.phase = "run"
  /\ \E i, j, k \in 1..Len(boot.log) :
        /\ i < j /\ j < k
        /\ boot.log[i].kind = "prov" /\ boot.log[i].id = "A" /\ boot.log[i].r = 1
        /\ boot.log[j].kind = "prov" /\ boot.log[j].id = "A" /\ boot.log[j].r = 0
        /\ boot.log[j].m.name # boot.log[i].m.name
        /\ boot.log[k].kind = "prov" /\ boot.log[k].id = "B" /\ boot.log[k].r = 1
        /\ \E q \in boot.provs : q.id = "A" /\ q.name = boot.log[i].m.name
        /\ {md.prov : md \in boot.modules} = {"A", "B"}

\* the provider record m lacks a required field
Lacking(m) == \E f \in ProvFields : f \notin DOMAIN m

\* the provider record m names a dictionary that is not registered
UnknownDict(m, dicts) == "dict" \in DOMAIN m /\ \A d \in dicts : d.id # m.dict

\* the ids of the provider records loaded with success
LoadedProvs(log) ==
  {log[i].id : i \in {j \in 1..Len(log) : log[j].kind = "prov" /\ log[j].r = 1}}

\* C25: a provider record that lacks a required field or names a dictionary
\* that is not registered returns an error and leaves the provider registry
\* as it was; a dictionary whose tree build failed is not registered; and the
\* modules made are exactly those of the providers loaded with success.
C25_RejectedProviderNotRegistered ==
  [][/\ \A e \in Loaded :
          /\ (e.kind = "prov" /\ (Lacking(e.m) \/ UnknownDict(e.m, boot.dicts)))
                => e.r < 0 /\ boot'.provs = boot.provs
          /\ (e.kind = "dict" /\ e.r < 0)
                => boot'.dicts = boot.dicts /\ \A d \in boot'.dicts : d.id # e.id
     /\ (boot.phase # "run" /\ boot'.phase = "run")
          => /\ boot'.provs = boot.provs
             /\ {md.prov : md \in boot'.modules} = LoadedProvs(boot.log)]_vars

\* C25 witness: the tree build of dictionary d2 failed, a record of provider
\* B naming d2 was rejected, provider A was loaded after it, and the modules
\* made include A's and none for B.
C25_Witness ==
  /\ boot.phase = "run"
  /\ \E i, j, k \in 1..Len(boot.log) :
        /\ i < j /\ j < k
        /\ boot.log[i].kind = "dict" /\ boot.log[i].id = "d2" /\ boot.log[i].r < 0
        /\ boot.log[j].kind = "prov" /\ boot.log[j].id = "B" /\ boot.log[j].r < 0
        /\ ~Lacking(boot.log[j].m) /\ boot.log[j].m.dict = "d2"
        /\ boot.log[k].kind = "prov" /\ boot.log[k].id = "A" /\ boot.log[k].r = 1
  /\ {md.prov : md \in boot.modules} = {"A"}

\* the first record of the first event block of a title section is a 0xb5
\* record with fewer than 7 payload bytes
ShortTitleRecord(buf) == Len(buf) >= 20 /\ B(buf, 11) = 181 /\ B(buf, 12) < 7

\* C31: when a decoded title section carries a 0xb5 record with fewer than 7
\* payload bytes that fits, the section is processed to its end, and the
\* partial event then has start, stop and category from the record's first
\* five payload bytes and the title it had before (none for a new event).
C31_ShortTitleRecordSetsTimes ==
  [][(/\ last'.op = "title" /\ hist' # hist /\ last'.ret
      /\ ShortTitleRecord(last'.buf)
      /\ last'.keys # {})
       => /\ boot'.phase = "run"
          /\ \A e \in events' :
               (e.cid = 66 /\ e.eid = 4662)
                 => /\ e.start = (59000 - 40587) * 86400 + 6
                    /\ e.stop = e.start + 4
                    /\ e.cat = 16
                    /\ e.title = IF \E o \in events : o.cid = 66 /\ o.eid = 4662
                                 THEN (CHOOSE o \in events :
                                         o.cid = 66 /\ o.eid = 4662).title
                                 ELSE NULL]_vars

\* the number of entries of the pending-save queue that are service t
OnQueue(t) ==
  Cardinality({i \in 1..Len(pending_save_queue) : pending_save_queue[i] = t})

\* C32: at every point of every interleaving of service_request_save calls
\* and the saver thread, a service is on the pending-save queue exactly when
\* its s_ps_onqueue is not 0, it is there at most once, s_ps_onqueue is 2
\* exactly when a request with restart was made since it was enqueued, and
\* the saver's assert(s_ps_onqueue != 0) has not failed.
C32_OnQueueFlag ==
  /\ ~sv.assert
  /\ \A t \in Svc :
       /\ OnQueue(t) = (IF s_ps_onqueue[t] = 0 THEN 0 ELSE 1)
       /\ (s_ps_onqueue[t] = 2) = sv.wanted[t]

\* C32 witness: two requests for one service before the saver took anything;
\* the second, with restart, found the service queued and is about to unlock,
\* while the saver woken by the first waits for the mutex.
C32_Witness ==
  \E u \in Requesters : \E t \in Svc :
    /\ thr[u] = [at |-> "unlock", t |-> t, restart |-> TRUE]
    /\ \A w \in Requesters \ {u} : thr[w] = Out
    /\ sv.nreq = 2 /\ s_refcount[t] = 2
    /\ pending_save_queue = <<t>> /\ s_ps_onqueue[t] = 2
    /\ thr["saver"] = [at |-> "woken", t |-> "none", restart |-> FALSE]

\* C36: service_find_instance calls service_start only for an entry whose
\* si_error was 0 and whose service was not SERVICE_RUNNING, whatever the
\* list holds; the assertion at the head of service_start has not failed.
C36_StartOnlyNotRunning ==
  /\ ~sv.assert
  /\ sv.find.started # NULL
       => sv.find.cand_error = 0 /\ sv.find.cand_status # "RUNNING"

\* C36 witness: an instance of s2 was started from a list that also holds an
\* instance of the running service s1 whose si_error is set and a second
\* instance of s1.
C36_Witness ==
  /\ sv.find.path = "started" /\ sv.find.started = <<"s2", 1>>
  /\ s_status["s1"] = "RUNNING"
  /\ \E a, b \in 1..Len(sil) :
       /\ a # b /\ sil[a].si_s = "s1" /\ sil[b].si_s = "s1"
       /\ sil[a].si_error # 0 /\ sil[b].si_error # 0

\* C37: an instance returned by service_find_instance has si_error 0 and a
\* running service; a NULL result leaves *error at SM_CODE_NO_FREE_ADAPTER or
\* above when there was no candidate, and at SM_CODE_TUNING_FAILED or above
\* with the candidate's si_error set to SM_CODE_TUNING_FAILED when the start
\* failed; *error is never below its value on entry.
C37_FindResult ==
  sv.find.called =>
    /\ sv.find.err_out >= sv.find.err_in
    /\ sv.find.ret # NULL
         => sv.find.ret_error = 0 /\ sv.find.ret_status = "RUNNING"
    /\ sv.find.ret = NULL
         => \/ /\ sv.find.started = NULL
               /\ sv.find.err_out >= SM_CODE_NO_FREE_ADAPTER
            \/ /\ sv.find.started # NULL
               /\ sv.find.start_error = SM_CODE_TUNING_FAILED
               /\ sv.find.err_out >= SM_CODE_TUNING_FAILED

\* C37 witness: a start that failed in a call entered with *error above
\* SM_CODE_TUNING_FAILED: NULL is returned and *error is left as it was.
C37_Witness ==
  /\ sv.find.path = "tuning" /\ sv.find.ret = NULL
  /\ sv.find.err_in = 204 /\ sv.find.err_out = 204
  /\ \E a \in 1..Len(sil) :
       SiKey(sil[a]) = sv.find.started /\ sil[a].si_error = SM_CODE_TUNING_FAILED

\* what the saver's step from "save" added to the log of calls
Saved == SubSeq(sv'.log, Len(sv.log) + 1, Len(sv'.log))

\* C34: the saver calls s_config_save on a dequeued service only if its
\* status is not SERVICE_ZOMBIE, and service_restart only if the status is
\* SERVICE_RUNNING and a restart was requested for the entry; a service
\* destroyed between being queued and being dequeued is neither saved nor
\* restarted.
C34_SaverSkipsZombie ==
  [][(thr["saver"].at = "save" /\ thr'["saver"].at = "unref") =>
       LET t == thr["saver"].t IN
       /\ \A j \in 1..Len(Saved) : Saved[j].t = t
       /\ (\E j \in 1..Len(Saved) : Saved[j].op = "s_config_save")
            => s_status[t] # "ZOMBIE"
       /\ (\E j \in 1..Len(Saved) : Saved[j].op = "service_restart")
            => s_status[t] = "RUNNING" /\ sv.deq.asked
       /\ sv.deq.st = "ZOMBIE" => Saved = <<>>]_vars

\* C34 witness: the saver is past the calls for a service that was queued
\* with a restart request and destroyed before it was dequeued, and the log
\* holds no call for that service.
C34_Witness ==
  /\ thr["saver"].at = "unref"
  /\ sv.deq.st = "ZOMBIE" /\ sv.deq.asked
  /\ \A j \in 1..Len(sv.log) : sv.log[j].t # thr["saver"].t

\* the references to service t: the one service_create0 gave, dropped by
\* service_destroy; one for its pending-save entry, taken by the requester
\* after the insert and dropped by the saver after its calls; one for each
\* service_instance of it
Holders(t) ==
  (IF s_status[t] # "ZOMBIE" THEN 1 ELSE 0)
  + OnQueue(t)
  - Cardinality({u \in Requesters : thr[u].t = t /\ thr[u].at = "ref"})
  + (IF thr["saver"].t = t /\ thr["saver"].at \in {"unlock", "glock", "save", "unref"}
     THEN 1 ELSE 0)
  + Cardinality({j \in 1..Len(sil) : sil[j].si_s = t})

C35_ShutdownTerminates ==
  (thr["main"].at = "stopping") ~> (thr["main"].at = "done")

====
